---- MODULE Spec2Model ----
(***************************************************************************)
(* Minimeyes: the allocation engine Minimiser (src/minimiser.py), the      *)
(* persistence layer DataManager (src/data_manager.py), the balance report *)
(* of src/app.py and the users and sessions of AuthManager (src/auth.py).  *)
(*                                                                         *)
(* Python values: str -> TLA+ string, tuple/list -> sequence, dict -> the  *)
(* sequence of its <<key, value>> items in insertion order, bool ->        *)
(* BOOLEAN, None -> the string "None".  A float in [0, 1] that is a ratio  *)
(* of integers is kept as that ratio.  A raised exception is returned as   *)
(* the field exc of the operator's result ("None" when nothing is raised). *)
(***************************************************************************)
EXTENDS Integers, Sequences, FiniteSets, TLC

VARIABLES
    api,         \* the layer the caller drives: "Minimiser" (an instance in memory),
                 \* "DataManager" or "AuthManager"
    minimiser,   \* the Minimiser instance the caller holds in memory ("None" under DataManager;
                 \* under SpecConcurrent the locals of each session's add_patient call;
                 \* under AuthManager the AuthManager instance with its sessions)
    base_dir,    \* DataManager.base_dir: trial id -> the files of that trial's directory
                 \* (under AuthManager the auth file and the clock of the machine)
    last         \* the call that produced this state: operation, exception raised, value returned

vars == <<api, minimiser, base_dir, last>>

None == "None"

(***************************************************************************)
(* dict                                                                    *)
(***************************************************************************)
DictKeys(d) == {d[i][1] : i \in DOMAIN d}

DictGet(d, k) == d[CHOOSE i \in DOMAIN d : d[i][1] = k][2]

DictValues(d) == [i \in DOMAIN d |-> d[i][2]]

\* d[k] = v: an existing key keeps its position, a new key goes last
DictSet(d, k, v) ==
    IF k \in DictKeys(d)
    THEN [i \in DOMAIN d |-> IF d[i][1] = k THEN <<k, v>> ELSE d[i]]
    ELSE Append(d, <<k, v>>)

\* repr() of a list of str, as the f-string of get_minimised_arm renders it
RECURSIVE ReprItems(_)
ReprItems(values) ==
    IF values = <<>> THEN ""
    ELSE "'" \o Head(values) \o "'"
         \o (IF Len(values) > 1 THEN ", " ELSE "")
         \o ReprItems(Tail(values))

ListRepr(values) == "[" \o ReprItems(values) \o "]"

(***************************************************************************)
(* hashlib.sha256(hash_input.encode()).hexdigest()[:8] read as a base-16   *)
(* number, for every hash_input the model forms.  The 32-bit value is kept *)
(* as two base-65536 digits <<high, low>>.                                 *)
(***************************************************************************)
Sha256Prefix8 ==
    ("minimisation_tie_['male', 'yes']_test_seed" :> <<35159, 15366>>) @@
    ("minimisation_tie_['yes', 'male']_test_seed" :> <<3751, 58378>>) @@
    ("minimisation_tie_['male', 'no']_test_seed" :> <<14298, 63190>>) @@
    ("minimisation_tie_['no', 'male']_test_seed" :> <<41052, 22294>>) @@
    ("minimisation_tie_['female', 'yes']_test_seed" :> <<29048, 45048>>) @@
    ("minimisation_tie_['yes', 'female']_test_seed" :> <<19680, 4487>>) @@
    ("minimisation_tie_['female', 'no']_test_seed" :> <<13751, 4387>>) @@
    ("minimisation_tie_['no', 'female']_test_seed" :> <<6751, 12240>>) @@
    ("minimisation_tie_['male', 'yes']_default_seed" :> <<45077, 26504>>) @@
    ("minimisation_tie_['yes', 'male']_default_seed" :> <<6179, 20087>>) @@
    ("minimisation_tie_['male', 'no']_default_seed" :> <<43071, 29020>>) @@
    ("minimisation_tie_['no', 'male']_default_seed" :> <<38622, 24585>>) @@
    ("minimisation_tie_['female', 'yes']_default_seed" :> <<53758, 9041>>) @@
    ("minimisation_tie_['yes', 'female']_default_seed" :> <<2446, 50812>>) @@
    ("minimisation_tie_['female', 'no']_default_seed" :> <<43663, 16120>>) @@
    ("minimisation_tie_['no', 'female']_default_seed" :> <<47279, 22048>>) @@
    ("patient164498209_test_seed" :> <<65535, 65535>>) @@
    ("patient164498209_allocation_test_seed" :> <<26301, 39560>>) @@
    ("patient164498209_default_seed" :> <<19551, 159>>) @@
    ("patient164498209_allocation_default_seed" :> <<57227, 25900>>) @@
    ("patient164498209_test_trial" :> <<49041, 32628>>) @@
    ("patient164498209_allocation_test_trial" :> <<55813, 35544>>) @@
    ("patient164498209_replay_trial" :> <<20124, 54674>>) @@
    ("patient164498209_allocation_replay_trial" :> <<46392, 41099>>) @@
    ("patient1_test_seed" :> <<14817, 4523>>) @@
    ("patient1_allocation_test_seed" :> <<46722, 19200>>) @@
    ("patient2_test_seed" :> <<50754, 50690>>) @@
    ("patient2_allocation_test_seed" :> <<8619, 58324>>) @@
    ("patient3_test_seed" :> <<41450, 57807>>) @@
    ("patient3_allocation_test_seed" :> <<8726, 41819>>) @@
    ("patient4_test_seed" :> <<6545, 9840>>) @@
    ("patient4_allocation_test_seed" :> <<48200, 7505>>) @@
    ("patient5_test_seed" :> <<2380, 47474>>) @@
    ("patient5_allocation_test_seed" :> <<49369, 37166>>) @@
    ("patient6_test_seed" :> <<27733, 53251>>) @@
    ("patient6_allocation_test_seed" :> <<26573, 53846>>) @@
    ("minimisation_tie_['male', '<=50']_test_seed" :> <<57698, 45537>>) @@
    ("minimisation_tie_['<=50', 'male']_test_seed" :> <<52875, 47639>>) @@
    ("minimisation_tie_['male', '>50']_test_seed" :> <<37904, 2386>>) @@
    ("minimisation_tie_['>50', 'male']_test_seed" :> <<52032, 25638>>) @@
    ("minimisation_tie_['female', '<=50']_test_seed" :> <<26539, 7885>>) @@
    ("minimisation_tie_['<=50', 'female']_test_seed" :> <<4166, 17871>>) @@
    ("minimisation_tie_['female', '>50']_test_seed" :> <<38222, 38759>>) @@
    ("minimisation_tie_['>50', 'female']_test_seed" :> <<13348, 35476>>) @@
    ("patient1_default_seed" :> <<45795, 12469>>) @@
    ("patient1_allocation_default_seed" :> <<47988, 30330>>) @@
    ("patient2_default_seed" :> <<49655, 37723>>) @@
    ("patient2_allocation_default_seed" :> <<11123, 22690>>) @@
    ("patient3_default_seed" :> <<21099, 21875>>) @@
    ("patient3_allocation_default_seed" :> <<61631, 25218>>) @@
    ("patient4_default_seed" :> <<50020, 39874>>) @@
    ("patient4_allocation_default_seed" :> <<24437, 37969>>) @@
    ("patient5_default_seed" :> <<58074, 3474>>) @@
    ("patient5_allocation_default_seed" :> <<16058, 58654>>) @@
    ("patient6_default_seed" :> <<19342, 45543>>) @@
    ("patient6_allocation_default_seed" :> <<7744, 1153>>) @@
    ("minimisation_tie_['male', '<=50']_default_seed" :> <<6227, 31438>>) @@
    ("minimisation_tie_['<=50', 'male']_default_seed" :> <<64420, 27734>>) @@
    ("minimisation_tie_['male', '>50']_default_seed" :> <<21693, 6050>>) @@
    ("minimisation_tie_['>50', 'male']_default_seed" :> <<31584, 52119>>) @@
    ("minimisation_tie_['female', '<=50']_default_seed" :> <<9226, 32063>>) @@
    ("minimisation_tie_['<=50', 'female']_default_seed" :> <<1378, 62325>>) @@
    ("minimisation_tie_['female', '>50']_default_seed" :> <<1228, 64938>>) @@
    ("minimisation_tie_['>50', 'female']_default_seed" :> <<12363, 17735>>) @@
    ("patient1_test_trial" :> <<62323, 49875>>) @@
    ("patient1_allocation_test_trial" :> <<62273, 61620>>) @@
    ("patient2_test_trial" :> <<11556, 54681>>) @@
    ("patient2_allocation_test_trial" :> <<11103, 10252>>) @@
    ("patient3_test_trial" :> <<6248, 51217>>) @@
    ("patient3_allocation_test_trial" :> <<34402, 26420>>) @@
    ("patient4_test_trial" :> <<46597, 4703>>) @@
    ("patient4_allocation_test_trial" :> <<26739, 42710>>) @@
    ("patient5_test_trial" :> <<53047, 30114>>) @@
    ("patient5_allocation_test_trial" :> <<29644, 33013>>) @@
    ("patient6_test_trial" :> <<41708, 57315>>) @@
    ("patient6_allocation_test_trial" :> <<4923, 2130>>) @@
    ("minimisation_tie_['male', '<=50']_test_trial" :> <<18113, 23969>>) @@
    ("minimisation_tie_['<=50', 'male']_test_trial" :> <<33285, 62136>>) @@
    ("minimisation_tie_['male', '>50']_test_trial" :> <<60234, 17531>>) @@
    ("minimisation_tie_['>50', 'male']_test_trial" :> <<4556, 21374>>) @@
    ("minimisation_tie_['female', '<=50']_test_trial" :> <<39094, 21728>>) @@
    ("minimisation_tie_['<=50', 'female']_test_trial" :> <<35105, 39970>>) @@
    ("minimisation_tie_['female', '>50']_test_trial" :> <<47708, 43781>>) @@
    ("minimisation_tie_['>50', 'female']_test_trial" :> <<35729, 31118>>) @@
    ("patient1_replay_trial" :> <<37029, 27067>>) @@
    ("patient1_allocation_replay_trial" :> <<52089, 49461>>) @@
    ("patient2_replay_trial" :> <<30398, 17804>>) @@
    ("patient2_allocation_replay_trial" :> <<29934, 59221>>) @@
    ("patient3_replay_trial" :> <<26705, 4338>>) @@
    ("patient3_allocation_replay_trial" :> <<31775, 23724>>) @@
    ("patient4_replay_trial" :> <<17185, 22586>>) @@
    ("patient4_allocation_replay_trial" :> <<57732, 25911>>) @@
    ("patient5_replay_trial" :> <<8008, 29277>>) @@
    ("patient5_allocation_replay_trial" :> <<4721, 5678>>) @@
    ("patient6_replay_trial" :> <<53402, 39126>>) @@
    ("patient6_allocation_replay_trial" :> <<3280, 1651>>) @@
    ("minimisation_tie_['male', '<=50']_replay_trial" :> <<35698, 63667>>) @@
    ("minimisation_tie_['<=50', 'male']_replay_trial" :> <<35041, 31033>>) @@
    ("minimisation_tie_['male', '>50']_replay_trial" :> <<31137, 42130>>) @@
    ("minimisation_tie_['>50', 'male']_replay_trial" :> <<25027, 2201>>) @@
    ("minimisation_tie_['female', '<=50']_replay_trial" :> <<23837, 41594>>) @@
    ("minimisation_tie_['<=50', 'female']_replay_trial" :> <<41021, 21417>>) @@
    ("minimisation_tie_['female', '>50']_replay_trial" :> <<58013, 42285>>) @@
    ("minimisation_tie_['>50', 'female']_replay_trial" :> <<23924, 62721>>)

LimbBase == 65536

\* The product of the 32-bit number x = <<high, low>> and a small k, as three digits
MulLimbs(x, k) ==
    LET c0 == x[2] * k
        c1 == x[1] * k + (c0 \div LimbBase)
    IN  <<c1 \div LimbBase, c1 % LimbBase, c0 % LimbBase>>

LimbsLeq(a, b) ==
    \/ a[1] < b[1]
    \/ a[1] = b[1] /\ a[2] < b[2]
    \/ a[1] = b[1] /\ a[2] = b[2] /\ a[3] <= b[3]

\* 0xffffffff, the divisor of deterministic_random
UintMax == <<65535, 65535>>

(***************************************************************************)
(* Minimiser                                                               *)
(***************************************************************************)
\* __init__ and create_patient_dataframe: the instance, with an empty dataframe.
\* df_patients is the sequence of its rows in index order, each with its index
\* label and its cells by column name.
Minimiser(trial_id, minimisation_vars, arms, minimisation_weight, seed, strict_mode) ==
    [trial_id            |-> trial_id,
     minimisation_vars   |-> minimisation_vars,
     arms                |-> arms,
     minimisation_weight |-> minimisation_weight,
     seed                |-> IF seed # None THEN seed ELSE "default_seed",
     strict_mode         |-> strict_mode,
     df_patients         |-> <<>>]

Index(df) == {df[i].id : i \in DOMAIN df}

Loc(df, id) == CHOOSE i \in DOMAIN df : df[i].id = id

\* Mutant: the active flag is not consulted
ActiveRows_all(df) == df

\* df_patients[df_patients['active'] == True]
ActiveRows(df) == SelectSeq(df, LAMBDA p : p.row["active"] = TRUE)

get_active_patients(self) == Len(ActiveRows(self.df_patients))

get_n_patients(self) == Len(self.df_patients)

\* Mutant: only the key sets are compared
check_valid_characteristics_keys_only(self, characteristics) ==
    IF DictKeys(characteristics) # DictKeys(self.minimisation_vars)
    THEN "SchemaMismatch"
    ELSE "None"

\* The exception check_valid_characteristics raises, "None" when it returns True
check_valid_characteristics(self, characteristics) ==
    IF DictKeys(characteristics) # DictKeys(self.minimisation_vars)
    THEN "SchemaMismatch"
    ELSE IF \E k \in DictKeys(characteristics) :
                \A j \in DOMAIN DictGet(self.minimisation_vars, k) :
                    DictGet(self.minimisation_vars, k)[j] # DictGet(characteristics, k)
         THEN "InvalidValue"
         ELSE "None"

\* Mutant: the trial id is hashed in place of the seed
deterministic_random_trial_salt(self, patient_id) ==
    Sha256Prefix8[patient_id \o "_" \o self.trial_id]

\* The numerator of the returned float; its denominator is 0xffffffff
deterministic_random(self, patient_id) ==
    Sha256Prefix8[patient_id \o "_" \o self.seed]

\* int(rand * n)
IntOfProduct(rand, n) ==
    LET p == MulLimbs(rand, n)
    IN  IF p[2] = LimbBase - 1 /\ p[3] + p[1] >= LimbBase - 1 THEN p[1] + 1 ELSE p[1]

\* Mutant: the comparison is turned round (rand > minimisation_weight)
RandLeqWeight_reversed(rand, w) == ~LimbsLeq(MulLimbs(rand, w[2]), MulLimbs(UintMax, w[1]))

\* rand <= minimisation_weight, the weight being the ratio w[1] / w[2]
RandLeqWeight(rand, w) == LimbsLeq(MulLimbs(rand, w[2]), MulLimbs(UintMax, w[1]))

\* arms[int(rand * len(arms))]
ArmAt(self, rand) ==
    LET arm_index == IntOfProduct(rand, Len(self.arms))
    IN  IF arm_index < Len(self.arms)
        THEN [ret |-> self.arms[arm_index + 1], exc |-> "None"]
        ELSE [ret |-> None, exc |-> "IndexError"]

\* Python's ==, which is False between a bool and a str
PyEq(a, b) == ToString(a) = ToString(b)

\* arm_totals[arm] after the loops of get_minimised_arm
\* Mutant: the first of the active rows is not counted
ArmTotal_without_first(self, characteristics, arm) ==
    LET active_patients == ActiveRows(self.df_patients)
        Matching(i) == {j \in DOMAIN active_patients \ {1} :
                           /\ active_patients[j].row["arm"] = arm
                           /\ PyEq(active_patients[j].row[characteristics[i][1]],
                                   characteristics[i][2])}
        RECURSIVE Sum(_)
        Sum(i) == IF i = 0 THEN 0 ELSE Sum(i - 1) + Cardinality(Matching(i))
    IN  Sum(Len(characteristics))

\* Mutant: a patient counts once however many of its values match
ArmTotal_once_per_patient(self, characteristics, arm) ==
    LET active_patients == ActiveRows(self.df_patients)
    IN  Cardinality({j \in DOMAIN active_patients :
                        /\ active_patients[j].row["arm"] = arm
                        /\ \E i \in DOMAIN characteristics :
                               PyEq(active_patients[j].row[characteristics[i][1]],
                                    characteristics[i][2])})

ArmTotal(self, characteristics, arm) ==
    LET active_patients == ActiveRows(self.df_patients)
        Matching(i) == {j \in DOMAIN active_patients :
                           /\ active_patients[j].row["arm"] = arm
                           /\ PyEq(active_patients[j].row[characteristics[i][1]],
                                   characteristics[i][2])}
        RECURSIVE Sum(_)
        Sum(i) == IF i = 0 THEN 0 ELSE Sum(i - 1) + Cardinality(Matching(i))
    IN  Sum(Len(characteristics))

\* Mutant: the last arm, in the order of arms, with the least total
MinArm_last(self, characteristics) ==
    LET T(a) == ArmTotal(self, characteristics, self.arms[a])
        i == CHOOSE a \in DOMAIN self.arms :
                /\ \A b \in DOMAIN self.arms : T(a) <= T(b)
                /\ \A b \in (a + 1)..Len(self.arms) : T(b) > T(a)
    IN  self.arms[i]

\* min(arm_totals.items(), key=...)[0]: the first arm, in the order of arms, with the least total
MinArm(self, characteristics) ==
    LET T(a) == ArmTotal(self, characteristics, self.arms[a])
        i == CHOOSE a \in DOMAIN self.arms :
                /\ \A b \in DOMAIN self.arms : T(a) <= T(b)
                /\ \A b \in 1..(a - 1) : T(b) > T(a)
    IN  self.arms[i]

AllTotalsEqual(self, characteristics) ==
    \A a, b \in DOMAIN self.arms :
        ArmTotal(self, characteristics, self.arms[a]) = ArmTotal(self, characteristics, self.arms[b])

\* Mutant: equal totals go to the first arm
get_minimised_arm_first_on_tie(self, characteristics) ==
    IF \E i \in DOMAIN characteristics :
          \A j \in DOMAIN DictGet(self.minimisation_vars, characteristics[i][1]) :
              DictGet(self.minimisation_vars, characteristics[i][1])[j] # characteristics[i][2]
    THEN [ret |-> None, exc |-> "AssertionError"]
    ELSE [ret |-> MinArm(self, characteristics), exc |-> "None"]

\* Mutant: the hash decides whether or not the totals are equal
get_minimised_arm_always_hash(self, characteristics) ==
    ArmAt(self, deterministic_random(self,
              "minimisation_tie_" \o ListRepr(DictValues(characteristics))))

get_minimised_arm(self, characteristics) ==
    IF \E i \in DOMAIN characteristics :
          \A j \in DOMAIN DictGet(self.minimisation_vars, characteristics[i][1]) :
              DictGet(self.minimisation_vars, characteristics[i][1])[j] # characteristics[i][2]
    THEN [ret |-> None, exc |-> "AssertionError"]
    ELSE IF AllTotalsEqual(self, characteristics)
         THEN ArmAt(self, deterministic_random(self,
                        "minimisation_tie_" \o ListRepr(DictValues(characteristics))))
         ELSE [ret |-> MinArm(self, characteristics), exc |-> "None"]

\* Mutant: the row is appended before the index is checked
_add_patient_to_arm_append_first(self, id, characteristics, arm) ==
    LET chars == DictSet(DictSet(characteristics, "arm", arm), "active", TRUE)
        df_patient == [id |-> id, row |-> [c \in DictKeys(chars) |-> DictGet(chars, c)]]
    IN  [self |-> [self EXCEPT !.df_patients = Append(@, df_patient)],
         characteristics |-> chars,
         exc |-> IF id \in Index(self.df_patients) THEN "DuplicateEntity" ELSE "None"]

\* Mutant: the index is not looked at
_add_patient_to_arm_no_check(self, id, characteristics, arm) ==
    LET chars == DictSet(DictSet(characteristics, "arm", arm), "active", TRUE)
        df_patient == [id |-> id, row |-> [c \in DictKeys(chars) |-> DictGet(chars, c)]]
    IN  [self |-> [self EXCEPT !.df_patients = Append(@, df_patient)],
         characteristics |-> chars,
         exc |-> "None"]

\* The instance and the caller's dict after the call
_add_patient_to_arm(self, id, characteristics, arm) ==
    IF id \in Index(self.df_patients)
    THEN [self |-> self, characteristics |-> characteristics, exc |-> "DuplicateEntity"]
    ELSE LET chars == DictSet(DictSet(characteristics, "arm", arm), "active", TRUE)
             df_patient == [id |-> id, row |-> [c \in DictKeys(chars) |-> DictGet(chars, c)]]
         IN  [self |-> [self EXCEPT !.df_patients = Append(@, df_patient)],
              characteristics |-> chars,
              exc |-> "None"]

\* Mutant: a manual arm is honoured in strict mode too
ChooseArm_manual_in_strict(self, id, characteristics, manual_arm) ==
    IF manual_arm # None
    THEN IF \A i \in DOMAIN self.arms : self.arms[i] # manual_arm
         THEN [ret |-> None, exc |-> "InvalidArm"]
         ELSE [ret |-> manual_arm, exc |-> "None"]
    ELSE IF get_n_patients(self) = 0
         THEN ArmAt(self, deterministic_random(self, id))
         ELSE IF RandLeqWeight(deterministic_random(self, id \o "_allocation"),
                               self.minimisation_weight)
              THEN get_minimised_arm(self, characteristics)
              ELSE ArmAt(self, deterministic_random(self, id))

\* Mutant: the first-patient test counts the active patients only
ChooseArm_first_when_none_active(self, id, characteristics, manual_arm) ==
    IF ~self.strict_mode /\ manual_arm # None
    THEN IF \A i \in DOMAIN self.arms : self.arms[i] # manual_arm
         THEN [ret |-> None, exc |-> "InvalidArm"]
         ELSE [ret |-> manual_arm, exc |-> "None"]
    ELSE IF get_active_patients(self) = 0
         THEN ArmAt(self, deterministic_random(self, id))
         ELSE IF RandLeqWeight(deterministic_random(self, id \o "_allocation"),
                               self.minimisation_weight)
              THEN get_minimised_arm(self, characteristics)
              ELSE ArmAt(self, deterministic_random(self, id))

\* The arm chosen by lines 84-105, before the patient is added
ChooseArm(self, id, characteristics, manual_arm) ==
    IF ~self.strict_mode /\ manual_arm # None
    THEN IF \A i \in DOMAIN self.arms : self.arms[i] # manual_arm
         THEN [ret |-> None, exc |-> "InvalidArm"]
         ELSE [ret |-> manual_arm, exc |-> "None"]
    ELSE IF get_n_patients(self) = 0
         THEN ArmAt(self, deterministic_random(self, id))
         ELSE IF RandLeqWeight(deterministic_random(self, id \o "_allocation"),
                               self.minimisation_weight)
              THEN get_minimised_arm(self, characteristics)
              ELSE ArmAt(self, deterministic_random(self, id))

randomise_patient(self, id, characteristics, manual_arm) ==
    LET valid == check_valid_characteristics(self, characteristics)
        chosen == ChooseArm(self, id, characteristics, manual_arm)
        added == _add_patient_to_arm(self, id, characteristics, chosen.ret)
    IN  IF valid # "None"
        THEN [self |-> self, characteristics |-> characteristics, ret |-> None, exc |-> valid]
        ELSE IF chosen.exc # "None"
             THEN [self |-> self, characteristics |-> characteristics, ret |-> None,
                   exc |-> chosen.exc]
             ELSE IF added.exc # "None"
                  THEN [self |-> added.self, characteristics |-> added.characteristics,
                        ret |-> None, exc |-> added.exc]
                  ELSE [self |-> added.self, characteristics |-> added.characteristics,
                        ret |-> chosen.ret, exc |-> "None"]

\* df_patients.at[patient_id, column] = value
\* Mutant: the value is set in every row
SetAt_every_row(df, patient_id, column, value) ==
    [i \in DOMAIN df |-> [df[i] EXCEPT !.row[column] = value]]

SetAt(df, patient_id, column, value) ==
    [i \in DOMAIN df |-> IF df[i].id = patient_id
                         THEN [df[i] EXCEPT !.row[column] = value]
                         ELSE df[i]]

deactivate_patient(self, patient_id) ==
    IF patient_id \notin Index(self.df_patients)
    THEN [self |-> self, exc |-> "NotFound"]
    ELSE [self |-> [self EXCEPT !.df_patients = SetAt(@, patient_id, "active", FALSE)],
          exc |-> "None"]

reactivate_patient(self, patient_id) ==
    IF patient_id \notin Index(self.df_patients)
    THEN [self |-> self, exc |-> "NotFound"]
    ELSE [self |-> [self EXCEPT !.df_patients = SetAt(@, patient_id, "active", TRUE)],
          exc |-> "None"]

\* Mutant: strict_mode is not checked
reassign_arm_unguarded(self, patient_id, new_arm) ==
    IF patient_id \notin Index(self.df_patients)
    THEN [self |-> self, exc |-> "NotFound"]
    ELSE IF \A i \in DOMAIN self.arms : self.arms[i] # new_arm
         THEN [self |-> self, exc |-> "InvalidArm"]
         ELSE [self |-> [self EXCEPT !.df_patients = SetAt(@, patient_id, "arm", new_arm)],
               exc |-> "None"]

\* Mutant: the arm is checked first and the strict mode last
reassign_arm_arm_first(self, patient_id, new_arm) ==
    IF \A i \in DOMAIN self.arms : self.arms[i] # new_arm
    THEN [self |-> self, exc |-> "InvalidArm"]
    ELSE IF patient_id \notin Index(self.df_patients)
         THEN [self |-> self, exc |-> "NotFound"]
         ELSE IF self.strict_mode
              THEN [self |-> self, exc |-> "OperationNotPermitted"]
              ELSE [self |-> [self EXCEPT !.df_patients = SetAt(@, patient_id, "arm", new_arm)],
                    exc |-> "None"]

reassign_arm(self, patient_id, new_arm) ==
    IF self.strict_mode
    THEN [self |-> self, exc |-> "OperationNotPermitted"]
    ELSE IF patient_id \notin Index(self.df_patients)
         THEN [self |-> self, exc |-> "NotFound"]
         ELSE IF \A i \in DOMAIN self.arms : self.arms[i] # new_arm
              THEN [self |-> self, exc |-> "InvalidArm"]
              ELSE [self |-> [self EXCEPT !.df_patients = SetAt(@, patient_id, "arm", new_arm)],
                    exc |-> "None"]

\* to_dict(): df_patients.reset_index().rename(...).to_dict(orient='records') gives
\* one dict per row, 'id' first and then the columns in the dataframe's order
Columns(self) ==
    [i \in 1..(Len(self.minimisation_vars) + 2) |->
        IF i <= Len(self.minimisation_vars) THEN self.minimisation_vars[i][1]
        ELSE IF i = Len(self.minimisation_vars) + 1 THEN "arm" ELSE "active"]

ToRecord(self, p) ==
    <<<<"id", p.id>>>> \o [i \in DOMAIN Columns(self) |-> <<Columns(self)[i], p.row[Columns(self)[i]]>>]

to_dict(self) ==
    [trial_id            |-> self.trial_id,
     minimisation_vars   |-> self.minimisation_vars,
     arms                |-> self.arms,
     minimisation_weight |-> self.minimisation_weight,
     seed                |-> self.seed,
     strict_mode         |-> self.strict_mode,
     patients            |-> [i \in DOMAIN self.df_patients |-> ToRecord(self, self.df_patients[i])]]

\* pd.DataFrame(patients) followed by set_index('id')
FromRecords(patients) ==
    [i \in DOMAIN patients |->
        [id  |-> DictGet(patients[i], "id"),
         row |-> [c \in DictKeys(patients[i]) \ {"id"} |-> DictGet(patients[i], c)]]]

\* Mutant: the patients of the dictionary are not read
from_dict_config_only(data) ==
    Minimiser(data.trial_id, data.minimisation_vars, data.arms, data.minimisation_weight,
              data.seed, data.strict_mode)

from_dict(data) ==
    LET m == Minimiser(data.trial_id, data.minimisation_vars, data.arms,
                       data.minimisation_weight, data.seed, data.strict_mode)
    IN  IF data.patients # <<>>
        THEN [m EXCEPT !.df_patients = FromRecords(data.patients)]
        ELSE m

(***************************************************************************)
(* DataManager.  A trial directory holds config.json, current_state.json   *)
(* and the audit files in the order get_audit_trail lists them.            *)
(***************************************************************************)
Exists(dir, trial_id) == trial_id \in DOMAIN dir

\* The audit files are named f"{timestamp:%Y%m%d_%H%M%S_%f}_{action}.json" and
\* get_audit_trail reads them in sorted(os.listdir(audit_dir)) order: by
\* timestamp, and under one timestamp by the name of the action.
ActionRank(action) ==
    CASE action = "add_patient"   -> 1
      [] action = "change_status" -> 2
      [] action = "create_trial"  -> 3
      [] action = "reassign_arm"  -> 4

SameFile(e, f) == e.timestamp = f.timestamp /\ e.action = f.action

FileBefore(e, f) ==
    \/ e.timestamp < f.timestamp
    \/ e.timestamp = f.timestamp /\ ActionRank(e.action) < ActionRank(f.action)

\* The latest timestamp of the trial's audit files; 0 before the first
Latest(dir, trial_id) ==
    IF Exists(dir, trial_id) /\ dir[trial_id].audit # <<>>
    THEN dir[trial_id].audit[Len(dir[trial_id].audit)].timestamp
    ELSE 0

\* _create_audit_entry when datetime.now() returns 'now': open(filename, 'w')
\* makes the file, or replaces the file of that name
_create_audit_entry_at(dir, trial_id, now, action, data, user) ==
    LET entry == [timestamp |-> now, action |-> action, data |-> data, user |-> user]
        kept == SelectSeq(dir[trial_id].audit, LAMBDA f : ~SameFile(f, entry))
    IN  [dir EXCEPT ![trial_id].audit =
            SelectSeq(kept, LAMBDA f : FileBefore(f, entry)) \o <<entry>>
            \o SelectSeq(kept, LAMBDA f : FileBefore(entry, f))]

get_audit_trail(dir, trial_id) == IF Exists(dir, trial_id) THEN dir[trial_id].audit ELSE <<>>

\* _create_audit_entry when the clock has moved on since the latest entry
_create_audit_entry(dir, trial_id, action, data, user) ==
    _create_audit_entry_at(dir, trial_id, Latest(dir, trial_id) + 1, action, data, user)

create_trial(dir, trial_id, minimisation_vars, arms, minimisation_weight, seed, strict_mode, user) ==
    IF Exists(dir, trial_id)
    THEN [dir |-> dir, exc |-> "TrialExists"]
    ELSE LET m == Minimiser(trial_id, minimisation_vars, arms, minimisation_weight, seed,
                            strict_mode)
             made == [t \in DOMAIN dir \cup {trial_id} |->
                         IF t = trial_id
                         THEN [config_json |-> to_dict(m), current_state_json |-> to_dict(m),
                               audit |-> <<>>]
                         ELSE dir[t]]
         IN  [dir |-> _create_audit_entry(made, trial_id, "create_trial",
                          [minimisation_vars |-> minimisation_vars, arms |-> arms,
                           minimisation_weight |-> minimisation_weight, seed |-> seed,
                           strict_mode |-> strict_mode], user),
              exc |-> "None"]

\* Mutant: the configuration is read from current_state.json
load_trial_config_from_state(dir, trial_id) ==
    LET state == dir[trial_id].current_state_json
        m == Minimiser(state.trial_id, state.minimisation_vars, state.arms,
                       state.minimisation_weight, state.seed, state.strict_mode)
    IN  IF state.patients # <<>>
        THEN [m EXCEPT !.df_patients = FromRecords(state.patients)]
        ELSE m

\* The instance load_trial returns; the caller checks Exists first
load_trial(dir, trial_id) ==
    LET config == dir[trial_id].config_json
        state == dir[trial_id].current_state_json
        m == Minimiser(config.trial_id, config.minimisation_vars, config.arms,
                       config.minimisation_weight, config.seed, config.strict_mode)
    IN  IF state.patients # <<>>
        THEN [m EXCEPT !.df_patients = FromRecords(state.patients)]
        ELSE m

\* save_trial_state(minimiser, user): the instance's to_dict() with updated_at
\* and updated_by replaces current_state.json of the instance's trial
save_trial_state(dir, m, user) ==
    IF ~Exists(dir, m.trial_id)
    THEN [dir |-> dir, exc |-> "FileNotFoundError"]
    ELSE [dir |-> [dir EXCEPT ![m.trial_id].current_state_json =
                      [trial_id            |-> to_dict(m).trial_id,
                       minimisation_vars   |-> to_dict(m).minimisation_vars,
                       arms                |-> to_dict(m).arms,
                       minimisation_weight |-> to_dict(m).minimisation_weight,
                       seed                |-> to_dict(m).seed,
                       strict_mode         |-> to_dict(m).strict_mode,
                       patients            |-> to_dict(m).patients,
                       updated_at          |-> Latest(dir, m.trial_id) + 1,
                       updated_by          |-> user]],
          exc |-> "None"]

\* with open(state_file, 'w') as f: json.dump(minimiser.to_dict(), f)
WriteState(dir, trial_id, m) == [dir EXCEPT ![trial_id].current_state_json = to_dict(m)]

Truthy(value) == value # None /\ value # ""

add_patient(dir, trial_id, patient_id, characteristics, manual_arm, user) ==
    IF ~Exists(dir, trial_id)
    THEN [dir |-> dir, ret |-> None, exc |-> "TrialNotFound"]
    ELSE LET m == load_trial(dir, trial_id)
             r == randomise_patient(m, patient_id, characteristics, None)
         IN  IF Truthy(manual_arm)
             THEN IF m.strict_mode
                  THEN [dir |-> dir, ret |-> None, exc |-> "OperationNotPermitted"]
                  \* minimiser.add_patient(...): Minimiser has no attribute add_patient
                  ELSE [dir |-> dir, ret |-> None, exc |-> "AttributeError"]
             ELSE IF r.exc # "None"
                  THEN [dir |-> dir, ret |-> None, exc |-> r.exc]
                  ELSE [dir |-> _create_audit_entry(WriteState(dir, trial_id, r.self), trial_id,
                                    "add_patient",
                                    [patient_id |-> patient_id,
                                     characteristics |-> r.characteristics,
                                     arm |-> r.ret,
                                     manual |-> manual_arm # None], user),
                        ret |-> r.ret,
                        exc |-> "None"]

change_patient_status(dir, trial_id, patient_id, active, user) ==
    IF ~Exists(dir, trial_id)
    THEN [dir |-> dir, exc |-> "TrialNotFound"]
    \* minimiser.change_patient_status(...): Minimiser has no attribute change_patient_status
    ELSE [dir |-> dir, exc |-> "AttributeError"]

DM_reassign_arm(dir, trial_id, patient_id, new_arm, user) ==
    IF ~Exists(dir, trial_id)
    THEN [dir |-> dir, exc |-> "TrialNotFound"]
    ELSE LET r == reassign_arm(load_trial(dir, trial_id), patient_id, new_arm)
         IN  IF r.exc # "None"
             THEN [dir |-> dir, exc |-> r.exc]
             ELSE [dir |-> _create_audit_entry(WriteState(dir, trial_id, r.self), trial_id,
                               "reassign_arm",
                               [patient_id |-> patient_id, new_arm |-> new_arm], user),
                   exc |-> "None"]

(***************************************************************************)
(* The trial of the test suites (src/test_minimiser.py setUp) and the      *)
(* inputs of the calls.                                                    *)
(***************************************************************************)
TestVars == << <<"gender", <<"male", "female">> >>, <<"age_group", <<"<=50", ">50">> >> >>

TestArms == <<"A", "B">>

\* minimisation_weight and seed: 1.0 with a seed (test_get_minimised_arm), the
\* defaults 0.8 and None, and 0.0
WeightsAndSeeds == {<< <<1, 1>>, "test_seed">>, << <<8, 10>>, None>>, << <<0, 1>>, "test_seed">>}

MaxPatients == 2

\* The k-th patient enrolled is "patient<k>", as in the tests
PatientId(k) == "patient" \o ToString(k)

IdInputs(df) == Index(df) \cup {PatientId(Len(df) + 1)}

ValidCharacteristics ==
    { << <<"gender", "male">>, <<"age_group", "<=50">> >>,
      << <<"gender", "female">>, <<"age_group", ">50">> >>,
      << <<"age_group", "<=50">>, <<"gender", "male">> >> }

InvalidCharacteristics ==
    { << <<"gender", "male">> >>,
      << <<"gender", "male">>, <<"age_group", "<=50">>, <<"site", "north">> >>,
      << <<"gender", "unknown">>, <<"age_group", "<=50">> >> }

CharacteristicsInputs == ValidCharacteristics \cup InvalidCharacteristics

\* Mappings offered again with an id that is already enrolled
RepeatedCharacteristics ==
    { << <<"gender", "male">>, <<"age_group", "<=50">> >>, << <<"gender", "male">> >> }

Call(op, exc, ret) == [op |-> op, exc |-> exc, ret |-> ret]

MaxAudit == 3

TrialId == "test_trial"

User == "test_user"

\* The trial the caller's next call works on: the instance in memory, or the one
\* load_trial builds from the files
HasTrial == api = "Minimiser" \/ Exists(base_dir, TrialId)

Current == IF api = "Minimiser" THEN minimiser ELSE load_trial(base_dir, TrialId)

Registry == IF HasTrial THEN Current.df_patients ELSE <<>>

InitMinimiser ==
    /\ api = "Minimiser"
    /\ \E ws \in WeightsAndSeeds, strict_mode \in BOOLEAN :
          minimiser = Minimiser(TrialId, TestVars, TestArms, ws[1], ws[2], strict_mode)
    /\ base_dir = <<>>
    /\ last = Call("__init__", "None", None)

InitDataManager ==
    /\ api = "DataManager"
    /\ minimiser = None
    /\ base_dir = <<>>
    /\ last = Call("__init__", "None", None)

Init == InitMinimiser \/ InitDataManager

RandomisePatient(id, characteristics, manual_arm) ==
    LET r == randomise_patient(minimiser, id, characteristics, manual_arm)
    IN  /\ api = "Minimiser"
        /\ get_n_patients(r.self) <= MaxPatients
        /\ minimiser' = r.self
        /\ last' = Call("randomise_patient", r.exc, r.ret)
        /\ UNCHANGED <<api, base_dir>>

DeactivatePatient(id) ==
    LET r == deactivate_patient(minimiser, id)
    IN  /\ api = "Minimiser"
        /\ minimiser' = r.self
        /\ last' = Call("deactivate_patient", r.exc, None)
        /\ UNCHANGED <<api, base_dir>>

ReactivatePatient(id) ==
    LET r == reactivate_patient(minimiser, id)
    IN  /\ api = "Minimiser"
        /\ minimiser' = r.self
        /\ last' = Call("reactivate_patient", r.exc, None)
        /\ UNCHANGED <<api, base_dir>>

ReassignArm(id, new_arm) ==
    LET r == reassign_arm(minimiser, id, new_arm)
    IN  /\ api = "Minimiser"
        /\ minimiser' = r.self
        /\ last' = Call("reassign_arm", r.exc, None)
        /\ UNCHANGED <<api, base_dir>>

AuditLen(dir) == IF Exists(dir, TrialId) THEN Len(dir[TrialId].audit) ELSE 0

CreateTrial(ws, strict_mode) ==
    LET r == create_trial(base_dir, TrialId, TestVars, TestArms, ws[1], ws[2], strict_mode, User)
    IN  /\ api = "DataManager"
        /\ base_dir' = r.dir
        /\ last' = Call("create_trial", r.exc, None)
        /\ UNCHANGED <<api, minimiser>>

AddPatient(id, characteristics, manual_arm) ==
    LET r == add_patient(base_dir, TrialId, id, characteristics, manual_arm, User)
    IN  /\ api = "DataManager"
        /\ AuditLen(r.dir) <= MaxAudit
        /\ base_dir' = r.dir
        /\ last' = Call("add_patient", r.exc, r.ret)
        /\ UNCHANGED <<api, minimiser>>

ChangePatientStatus(id, active) ==
    LET r == change_patient_status(base_dir, TrialId, id, active, User)
    IN  /\ api = "DataManager"
        /\ base_dir' = r.dir
        /\ last' = Call("change_patient_status", r.exc, None)
        /\ UNCHANGED <<api, minimiser>>

DMReassignArm(id, new_arm) ==
    LET r == DM_reassign_arm(base_dir, TrialId, id, new_arm, User)
    IN  /\ api = "DataManager"
        /\ AuditLen(r.dir) <= MaxAudit
        /\ base_dir' = r.dir
        /\ last' = Call("DataManager.reassign_arm", r.exc, None)
        /\ UNCHANGED <<api, minimiser>>

AllArmInputs == {TestArms[i] : i \in DOMAIN TestArms} \cup {"Z"}

\* <<id, characteristics, manual_arm>> of the calls that add a patient
AddInputs(df) ==
    ({PatientId(Len(df) + 1)} \X CharacteristicsInputs \X (AllArmInputs \cup {None}))
    \cup (Index(df) \X RepeatedCharacteristics \X (AllArmInputs \cup {None}))

NextMinimiser ==
    \/ \E in \in AddInputs(Registry) : RandomisePatient(in[1], in[2], in[3])
    \/ \E id \in IdInputs(Registry) : DeactivatePatient(id)
    \/ \E id \in IdInputs(Registry) : ReactivatePatient(id)
    \/ \E id \in IdInputs(Registry), new_arm \in AllArmInputs : ReassignArm(id, new_arm)

NextDataManager ==
    \/ \E ws \in WeightsAndSeeds, strict_mode \in BOOLEAN : CreateTrial(ws, strict_mode)
    \/ \E in \in AddInputs(Registry) : AddPatient(in[1], in[2], in[3])
    \/ \E id \in IdInputs(Registry), active \in BOOLEAN : ChangePatientStatus(id, active)
    \/ \E id \in IdInputs(Registry), new_arm \in AllArmInputs : DMReassignArm(id, new_arm)

Next == NextMinimiser \/ NextDataManager

Spec == Init /\ [][Next]_vars

(***************************************************************************)
(* Allocation into a registry built directly, as test_get_minimised_arm    *)
(* builds one: any patients, arms and active flags a non-strict trial can  *)
(* hold.                                                                   *)
(***************************************************************************)
MaxPrior == 3

BuiltRows ==
    [gender : {"male", "female"}, age_group : {"<=50", ">50"},
     arm : {TestArms[i] : i \in DOMAIN TestArms}, active : BOOLEAN]

\* A place for each kind of row. The allocation reads the registry through
\* filters and counts only, so the registries drawn list their rows by kind.
KindOf(row) ==
    (IF row.gender = "male" THEN 0 ELSE 8) + (IF row.age_group = "<=50" THEN 0 ELSE 4)
    + (IF row.arm = TestArms[1] THEN 0 ELSE 2) + (IF row.active THEN 0 ELSE 1)

ByKind(rows) == \A i \in DOMAIN rows \ {1} : KindOf(rows[i - 1]) <= KindOf(rows[i])

BuiltRegistry(rows) == [i \in DOMAIN rows |-> [id |-> PatientId(i), row |-> rows[i]]]

AllocationInputs ==
    {<< <<"gender", g>>, <<"age_group", a>> >> : g \in {"male", "female"}, a \in {"<=50", ">50"}}
    \cup {<< <<"age_group", a>>, <<"gender", g>> >> : g \in {"male", "female"}, a \in {"<=50", ">50"}}

InitBuilt ==
    /\ api = "Minimiser"
    /\ \E ws \in {<< <<1, 1>>, "test_seed">>, << <<8, 10>>, None>>}, n \in 0..MaxPrior :
          \E rows \in [1..n -> BuiltRows] :
              /\ ByKind(rows)
              /\ minimiser = [Minimiser(TrialId, TestVars, TestArms, ws[1], ws[2], FALSE)
                              EXCEPT !.df_patients = BuiltRegistry(rows)]
    /\ base_dir = <<>>
    /\ last = Call("__init__", "None", None)

Allocate(characteristics) ==
    LET r == randomise_patient(minimiser, PatientId(get_n_patients(minimiser) + 1),
                               characteristics, None)
    IN  /\ get_n_patients(minimiser) <= MaxPrior
        /\ minimiser' = r.self
        /\ last' = Call("randomise_patient", r.exc, r.ret)
        /\ UNCHANGED <<api, base_dir>>

NextBuilt == \E c \in AllocationInputs : Allocate(c)

SpecMin == InitBuilt /\ [][NextBuilt]_vars

(***************************************************************************)
(* Allocation in a trial of three arms.  arms is any tuple of strings      *)
(* (__init__ takes it as given); the registry is built directly, as        *)
(* above, of men of 50 or less on any arm, active or not, and further      *)
(* patients, men and women of either age group, are randomised into it.    *)
(***************************************************************************)
MaxRows == 3

ThreeArms == <<"A", "B", "C">>

ThreeArmRows ==
    [gender : {"male"}, age_group : {"<=50"},
     arm : {ThreeArms[i] : i \in DOMAIN ThreeArms}, active : BOOLEAN]

ThreeArmKind(row) ==
    2 * ((CHOOSE i \in DOMAIN ThreeArms : ThreeArms[i] = row.arm) - 1)
    + (IF row.active THEN 0 ELSE 1)

ThreeArmsByKind(rows) ==
    \A i \in DOMAIN rows \ {1} : ThreeArmKind(rows[i - 1]) <= ThreeArmKind(rows[i])

ThreeArmInputs ==
    {<< <<"gender", "male">>, <<"age_group", "<=50">> >>,
     << <<"gender", "male">>, <<"age_group", ">50">> >>,
     << <<"gender", "female">>, <<"age_group", ">50">> >>,
     << <<"age_group", "<=50">>, <<"gender", "male">> >>}

InitThreeArms ==
    /\ api = "Minimiser"
    /\ \E ws \in {<< <<1, 1>>, "test_seed">>, << <<8, 10>>, None>>}, n \in 0..MaxRows :
          \E rows \in [1..n -> ThreeArmRows] :
              /\ ThreeArmsByKind(rows)
              /\ minimiser = [Minimiser(TrialId, TestVars, ThreeArms, ws[1], ws[2], FALSE)
                              EXCEPT !.df_patients = BuiltRegistry(rows)]
    /\ base_dir = <<>>
    /\ last = Call("__init__", "None", None)

AllocateThree(characteristics) ==
    LET r == randomise_patient(minimiser, PatientId(get_n_patients(minimiser) + 1),
                               characteristics, None)
    IN  /\ get_n_patients(minimiser) <= MaxRows
        /\ minimiser' = r.self
        /\ last' = Call("randomise_patient", r.exc, r.ret)
        /\ UNCHANGED <<api, base_dir>>

NextThreeArms == \E c \in ThreeArmInputs : AllocateThree(c)

SpecThreeArms == InitThreeArms /\ [][NextThreeArms]_vars

(***************************************************************************)
(* Two trials created with the same configuration and seed and given the   *)
(* same patients in the same order.                                        *)
(***************************************************************************)
ReplayId == "replay_trial"

InitReplay ==
    /\ api = "DataManager"
    /\ minimiser = None
    /\ \E ws \in WeightsAndSeeds, strict_mode \in BOOLEAN :
          \E first \in {create_trial(<<>>, TrialId, TestVars, TestArms, ws[1], ws[2],
                                     strict_mode, User)} :
              base_dir = create_trial(first.dir, ReplayId, TestVars, TestArms, ws[1], ws[2],
                                      strict_mode, User).dir
    /\ last = Call("create_trial", "None", None)

AddToBoth(id, characteristics) ==
    \E first \in {add_patient(base_dir, TrialId, id, characteristics, None, User)} :
        \E second \in {add_patient(first.dir, ReplayId, id, characteristics, None, User)} :
            /\ AuditLen(first.dir) <= MaxAudit
            /\ base_dir' = second.dir
            /\ last' = Call("add_patient", first.exc, first.ret)
            /\ UNCHANGED <<api, minimiser>>

NextReplay ==
    \E id \in IdInputs(Registry), c \in CharacteristicsInputs : AddToBoth(id, c)

SpecReplay == InitReplay /\ [][NextReplay]_vars

(***************************************************************************)
(* Patient ids are free text: besides the ids of the tests, one whose      *)
(* hash input "<id>_test_seed" has the SHA-256 prefix ffffffff.            *)
(***************************************************************************)
FreeIds == {"patient1", "patient2", "patient3", "patient164498209"}

RandomiseFree(id, characteristics) ==
    LET r == randomise_patient(minimiser, id, characteristics, None)
    IN  /\ id \notin Index(minimiser.df_patients)
        /\ get_n_patients(r.self) <= MaxPatients
        /\ minimiser' = r.self
        /\ last' = Call("randomise_patient", r.exc, r.ret)
        /\ UNCHANGED <<api, base_dir>>

NextHash == \E id \in FreeIds, c \in ValidCharacteristics : RandomiseFree(id, c)

SpecHash == InitMinimiser /\ [][NextHash]_vars

(***************************************************************************)
(* A trial with a variable named "active": the constructor only refuses a  *)
(* variable named "arm" (line 23), and the form of src/app.py takes any    *)
(* variable name.                                                          *)
(***************************************************************************)
ActiveVars == << <<"gender", <<"male", "female">> >>, <<"active", <<"yes", "no">> >> >>

ActiveVarCharacteristics ==
    {<< <<"gender", g>>, <<"active", a>> >> : g \in {"male", "female"}, a \in {"yes", "no"}}
    \cup {<< <<"gender", "male">> >>}

InitActiveVar ==
    /\ api = "Minimiser"
    /\ \E ws \in WeightsAndSeeds, strict_mode \in BOOLEAN :
          minimiser = Minimiser(TrialId, ActiveVars, TestArms, ws[1], ws[2], strict_mode)
    /\ base_dir = <<>>
    /\ last = Call("__init__", "None", None)

NextActiveVar ==
    \/ \E c \in ActiveVarCharacteristics :
          RandomisePatient(PatientId(get_n_patients(minimiser) + 1), c, None)
    \/ \E id \in IdInputs(minimiser.df_patients) : DeactivatePatient(id)
    \/ \E id \in IdInputs(minimiser.df_patients) : ReactivatePatient(id)
    \/ \E id \in IdInputs(minimiser.df_patients), new_arm \in AllArmInputs : ReassignArm(id, new_arm)

SpecActiveVar == InitActiveVar /\ [][NextActiveVar]_vars

(***************************************************************************)
(* A caller that keeps the dict it passes to randomise_patient and passes  *)
(* it again, as test_duplicate_patient_error does.  The dict the caller    *)
(* holds is the field characteristics of last.                             *)
(***************************************************************************)
Held(op, exc, ret, characteristics) ==
    [op |-> op, exc |-> exc, ret |-> ret, characteristics |-> characteristics]

InitCaller ==
    /\ api = "Minimiser"
    /\ \E ws \in WeightsAndSeeds, strict_mode \in BOOLEAN :
          minimiser = Minimiser(TrialId, TestVars, TestArms, ws[1], ws[2], strict_mode)
    /\ base_dir = <<>>
    /\ \E c \in ValidCharacteristics : last = Held("dict", "None", None, c)

\* characteristics = {...}: the caller builds a new dict
BuildDict(c) ==
    /\ last.characteristics # c
    /\ last' = Held("dict", "None", None, c)
    /\ UNCHANGED <<api, minimiser, base_dir>>

\* minimiser.randomise_patient(id, characteristics) with the dict the caller holds
RandomiseHeld(id) ==
    LET r == randomise_patient(minimiser, id, last.characteristics, None)
    IN  /\ get_n_patients(r.self) <= MaxPatients
        /\ minimiser' = r.self
        /\ last' = Held("randomise_patient", r.exc, r.ret, r.characteristics)
        /\ UNCHANGED <<api, base_dir>>

NextCaller ==
    \/ \E c \in ValidCharacteristics : BuildDict(c)
    \/ \E id \in IdInputs(minimiser.df_patients) : RandomiseHeld(id)

SpecCaller == InitCaller /\ [][NextCaller]_vars

(***************************************************************************)
(* Two sessions of the application (src/app.py runs one script thread per  *)
(* browser session) each call DataManager.add_patient once on the same     *)
(* trial.  The call takes no lock: it reads the files, computes in its own *)
(* memory, writes current_state.json and then writes the audit entry.      *)
(* Here minimiser holds, for each session, the locals of its call.         *)
(***************************************************************************)
Sessions == {1, 2}

ConcurrentIds == {"patient1", "patient2"}

Frame(pc, patient_id, characteristics, m, arm, exc) ==
    [pc |-> pc, patient_id |-> patient_id, characteristics |-> characteristics,
     m |-> m, arm |-> arm, exc |-> exc]

InitConcurrent ==
    /\ api = "DataManager"
    /\ minimiser = [s \in Sessions |-> Frame("idle", None, None, None, None, "None")]
    /\ \E ws \in WeightsAndSeeds, strict_mode \in BOOLEAN :
          base_dir = create_trial(<<>>, TrialId, TestVars, TestArms, ws[1], ws[2], strict_mode,
                                  User).dir
    /\ last = Call("create_trial", "None", None)

\* Lines 141-149: load_trial reads the files, randomise_patient works on the
\* instance in the session's memory
LoadAndRandomise(s, patient_id, characteristics) ==
    LET r == randomise_patient(load_trial(base_dir, TrialId), patient_id, characteristics, None)
    IN  /\ minimiser[s].pc = "idle"
        /\ minimiser' = [minimiser EXCEPT ![s] =
                IF r.exc # "None"
                THEN Frame("raised", patient_id, r.characteristics, None, None, r.exc)
                ELSE Frame("randomised", patient_id, r.characteristics, r.self, r.ret, "None")]
        /\ last' = Call("randomise_patient", r.exc, r.ret)
        /\ UNCHANGED <<api, base_dir>>

\* Lines 152-155
DumpState(s) ==
    /\ minimiser[s].pc = "randomised"
    /\ base_dir' = WriteState(base_dir, TrialId, minimiser[s].m)
    /\ minimiser' = [minimiser EXCEPT ![s].pc = "dumped"]
    /\ last' = Call("json.dump", "None", None)
    /\ UNCHANGED api

\* Lines 158-170
AuditAndReturn(s) ==
    /\ minimiser[s].pc = "dumped"
    /\ base_dir' = _create_audit_entry(base_dir, TrialId, "add_patient",
                        [patient_id |-> minimiser[s].patient_id,
                         characteristics |-> minimiser[s].characteristics,
                         arm |-> minimiser[s].arm,
                         manual |-> FALSE], User)
    /\ minimiser' = [minimiser EXCEPT ![s].pc = "returned"]
    /\ last' = Call("add_patient", "None", minimiser[s].arm)
    /\ UNCHANGED api

NextConcurrent ==
    \/ \E s \in Sessions, id \in ConcurrentIds, c \in ValidCharacteristics :
          LoadAndRandomise(s, id, c)
    \/ \E s \in Sessions : DumpState(s)
    \/ \E s \in Sessions : AuditAndReturn(s)

SpecConcurrent == InitConcurrent /\ [][NextConcurrent]_vars

(***************************************************************************)
(* The DataManager with load_trial and save_trial_state among its calls.   *)
(* The instance given to save_trial_state is one the caller has loaded     *)
(* and may have changed in memory.                                         *)
(***************************************************************************)
LoadTrial ==
    /\ api = "DataManager"
    /\ last' = Call("load_trial", IF Exists(base_dir, TrialId) THEN "None" ELSE "TrialNotFound",
                    None)
    /\ UNCHANGED <<api, minimiser, base_dir>>

\* What the caller may do to the instance it holds: set its attributes, or
\* call its methods
HeldEdits(m) ==
    {[m EXCEPT !.strict_mode = ~@], [m EXCEPT !.arms = <<@[2], @[1]>>],
     [m EXCEPT !.seed = "replay_trial"]}
    \cup {deactivate_patient(m, id).self : id \in Index(m.df_patients)}

SaveInputs(dir) ==
    IF Exists(dir, TrialId)
    THEN {load_trial(dir, TrialId)} \cup HeldEdits(load_trial(dir, TrialId))
    ELSE {Minimiser(TrialId, TestVars, TestArms, <<1, 1>>, "test_seed", FALSE)}

SaveTrialState(m) ==
    /\ api = "DataManager"
    /\ base_dir' = save_trial_state(base_dir, m, User).dir
    /\ last' = Call("save_trial_state", save_trial_state(base_dir, m, User).exc, None)
    /\ UNCHANGED <<api, minimiser>>

\* A seed that is given and one that is left out
ConfigInputs == {ws \in WeightsAndSeeds : ws[1] # <<0, 1>>}

\* The patients differ in one variable only: the configuration is read, not
\* the patients
ConfigCharacteristics == {c \in ValidCharacteristics : DictGet(c, "age_group") = "<=50"}

NextConfig ==
    \/ \E ws \in ConfigInputs, strict_mode \in BOOLEAN : CreateTrial(ws, strict_mode)
    \/ \E c \in ConfigCharacteristics : AddPatient(PatientId(Len(Registry) + 1), c, None)
    \/ \E id \in Index(Registry), active \in BOOLEAN : ChangePatientStatus(id, active)
    \/ \E id \in Index(Registry), new_arm \in AllArmInputs : DMReassignArm(id, new_arm)
    \/ LoadTrial
    \/ \E m \in SaveInputs(base_dir) : SaveTrialState(m)

SpecConfig == InitDataManager /\ [][NextConfig]_vars

(***************************************************************************)
(* The balance report: Minimiser.characteristics_by_arm and                *)
(* display_minimisation_table of src/app.py, called on a trial between     *)
(* the calls that change it.                                               *)
(***************************************************************************)
\* collections.Counter of a column over some rows: the values that occur, each
\* with the number of rows it occurs in
Counter(rows, column) ==
    [x \in {rows[i].row[column] : i \in DOMAIN rows} |->
        Cardinality({i \in DOMAIN rows : rows[i].row[column] = x})]

\* active_patients.groupby(['arm']).aggregate(Counter): a frame with a row for
\* each arm that occurs among the active patients and a column for each other
\* column of the registry, every cell a Counter
characteristics_by_arm(self) ==
    LET active_patients == ActiveRows(self.df_patients)
        groups == {active_patients[i].row["arm"] : i \in DOMAIN active_patients}
        columns == {Columns(self)[i] : i \in DOMAIN Columns(self)} \ {"arm"}
    IN  [arm \in groups |->
            [c \in columns |->
                Counter(SelectSeq(active_patients, LAMBDA p : p.row["arm"] = arm), c)]]

\* display_minimisation_table(minimiser).  'if not tables:' takes the truth
\* value of the DataFrame characteristics_by_arm returned, which pandas
\* refuses with ValueError whatever the frame holds, so lines 644-707 are
\* never reached.
display_minimisation_table(m) ==
    IF m.df_patients = <<>>
    THEN [exc |-> "None", info |-> "No patients in this trial yet.", tables |-> None]
    ELSE [exc |-> "ValueError", info |-> None, tables |-> None]

\* Arm A with two male and one female patient, arm B with one male and two
\* female patients
ExampleRegistry ==
    [i \in 1..6 |->
        [id  |-> PatientId(i),
         row |-> [gender    |-> IF i \in {1, 2, 4} THEN "male" ELSE "female",
                  age_group |-> IF i \in {1, 3, 5} THEN "<=50" ELSE ">50",
                  arm       |-> IF i <= 3 THEN "A" ELSE "B",
                  active    |-> TRUE]]]

InitReport ==
    \/ InitMinimiser
    \/ /\ api = "Minimiser"
       /\ minimiser = [Minimiser(TrialId, TestVars, TestArms, <<1, 1>>, "test_seed", TRUE)
                       EXCEPT !.df_patients = ExampleRegistry]
       /\ base_dir = <<>>
       /\ last = Call("__init__", "None", None)

DisplayMinimisationTable ==
    /\ api = "Minimiser"
    /\ last' = Call("display_minimisation_table", display_minimisation_table(minimiser).exc,
                    display_minimisation_table(minimiser).info)
    /\ UNCHANGED <<api, minimiser, base_dir>>

\* Patients are enrolled up to MaxPatients; the registry of the example is
\* changed by deactivation and reactivation only
NextReport ==
    \/ \E in \in (IF Len(Registry) < MaxPatients THEN AddInputs(Registry) ELSE {}) :
          RandomisePatient(in[1], in[2], in[3])
    \/ \E id \in IdInputs(Registry) : DeactivatePatient(id)
    \/ \E id \in IdInputs(Registry) : ReactivatePatient(id)
    \/ \E id \in IdInputs(Registry), new_arm \in AllArmInputs : ReassignArm(id, new_arm)
    \/ DisplayMinimisationTable

SpecReport == InitReport /\ [][NextReport]_vars

(***************************************************************************)
(* AuthManager (src/auth.py).  The instance holds the sessions; the users  *)
(* are in the auth file.  env is the machine: env.auth_file is the content *)
(* of the auth file and env.now the value of datetime.now(), in ticks.     *)
(***************************************************************************)
\* hashlib.sha256(password.encode()).hexdigest() of the passwords used
Sha256Hex ==
    ("password123" :> "ef92b778bafe771e89245b89ecbc08a44a4e166c06659911881f383d4473e94f") @@
    ("wrongpassword" :> "8ecd67dceb90a898b1f94bddf570ce1c23629cd328140d81f1e02e43d42eb44e") @@
    ("newpassword" :> "089542505d659cecbb988bb5ccff5bccf85be2dfa8c221359079aee2531298bb")

_hash_password(password) == Sha256Hex[password]

\* hashlib.sha256(f"{username}_{datetime.now().isoformat()}".encode()).hexdigest():
\* one digest for each text hashed
SessionId(username, now) == "sha256(" \o username \o "_" \o ToString(now) \o ")"

\* timedelta(hours=24), in ticks
SessionLife == 2

\* del d[k]
DictDel(d, k) == SelectSeq(d, LAMBDA item : item[1] # k)

\* Mutant: the username is not looked up first
create_user_overwrite(env, username, password, full_name, admin) ==
    [env |-> [env EXCEPT !.auth_file.users =
                 DictSet(@, username, [password_hash |-> _hash_password(password),
                                       full_name     |-> full_name,
                                       admin         |-> admin,
                                       created_at    |-> env.now,
                                       trial_access  |-> <<>>])],
     exc |-> "None"]

create_user(env, username, password, full_name, admin) ==
    IF username \in DictKeys(env.auth_file.users)
    THEN [env |-> env, exc |-> "UserExists"]
    ELSE [env |-> [env EXCEPT !.auth_file.users =
                      DictSet(@, username, [password_hash |-> _hash_password(password),
                                            full_name     |-> full_name,
                                            admin         |-> admin,
                                            created_at    |-> env.now,
                                            trial_access  |-> <<>>])],
          exc |-> "None"]

\* The session authenticate makes when its datetime.now() returns 'now'
Login(self, env, username, now) ==
    [self |-> [self EXCEPT !.sessions =
                  DictSet(@, SessionId(username, now),
                          [username |-> username, expires |-> now + SessionLife])],
     env  |-> [env EXCEPT !.now = now],
     ret  |-> SessionId(username, now)]

\* Mutant: the password is not compared
authenticate_any_password(self, env, username, password) ==
    IF username \notin DictKeys(env.auth_file.users)
    THEN [self |-> self, env |-> env, ret |-> "False"]
    ELSE Login(self, env, username, env.now + 1)

\* A successful call reads the clock, later than every call before it did
authenticate(self, env, username, password) ==
    IF username \notin DictKeys(env.auth_file.users)
    THEN [self |-> self, env |-> env, ret |-> "False"]
    ELSE IF DictGet(env.auth_file.users, username).password_hash # _hash_password(password)
         THEN [self |-> self, env |-> env, ret |-> "False"]
         ELSE Login(self, env, username, env.now + 1)

\* Mutant: the expiry is not looked at
validate_session_no_expiry(self, env, session_id) ==
    IF session_id \notin DictKeys(self.sessions)
    THEN [self |-> self, ret |-> None]
    ELSE [self |-> self, ret |-> DictGet(self.sessions, session_id).username]

validate_session(self, env, session_id) ==
    IF session_id \notin DictKeys(self.sessions)
    THEN [self |-> self, ret |-> None]
    ELSE IF env.now > DictGet(self.sessions, session_id).expires
         THEN [self |-> [self EXCEPT !.sessions = DictDel(@, session_id)], ret |-> None]
         ELSE [self |-> self, ret |-> DictGet(self.sessions, session_id).username]

logout(self, session_id) ==
    IF session_id \in DictKeys(self.sessions)
    THEN [self EXCEPT !.sessions = DictDel(@, session_id)]
    ELSE self

InList(values, x) == \E i \in DOMAIN values : values[i] = x

grant_trial_access(env, username, trial_id) ==
    IF username \notin DictKeys(env.auth_file.users)
    THEN [env |-> env, exc |-> "UserNotFound"]
    ELSE IF ~InList(DictGet(env.auth_file.users, username).trial_access, trial_id)
         THEN [env |-> [env EXCEPT !.auth_file.users =
                           DictSet(@, username,
                                   [DictGet(@, username) EXCEPT !.trial_access =
                                       Append(@, trial_id)])],
               exc |-> "None"]
         ELSE [env |-> env, exc |-> "None"]

\* Mutant: the admin flag is not looked at
has_trial_access_list_only(env, username, trial_id) ==
    IF username \notin DictKeys(env.auth_file.users)
    THEN FALSE
    ELSE InList(DictGet(env.auth_file.users, username).trial_access, trial_id)

has_trial_access(env, username, trial_id) ==
    IF username \notin DictKeys(env.auth_file.users)
    THEN FALSE
    ELSE IF DictGet(env.auth_file.users, username).admin
         THEN TRUE
         ELSE InList(DictGet(env.auth_file.users, username).trial_access, trial_id)

(***************************************************************************)
(* The calls of src/test_auth.py, in any order.                            *)
(***************************************************************************)
Usernames == {"testuser", "adminuser"}

Passwords == {"password123", "newpassword"}

TrialIds == {"trial1", "trial2"}

MaxClock == 4

SessionInputs ==
    {SessionId(username, now) : username \in Usernames, now \in 1..MaxClock}
    \cup {"invalid_session_id"}

InitAuth ==
    /\ api = "AuthManager"
    /\ minimiser = [sessions |-> <<>>]
    /\ base_dir = [auth_file |-> [users |-> <<>>], now |-> 0]
    /\ last = Call("__init__", "None", None)

CreateUser(username, password, admin) ==
    LET r == create_user(base_dir, username, password, None, admin)
    IN  /\ api = "AuthManager"
        /\ base_dir' = r.env
        /\ last' = Call("create_user", r.exc, None)
        /\ UNCHANGED <<api, minimiser>>

Authenticate(username, password) ==
    LET r == authenticate(minimiser, base_dir, username, password)
    IN  /\ api = "AuthManager"
        /\ r.env.now <= MaxClock
        /\ minimiser' = r.self
        /\ base_dir' = r.env
        /\ last' = Call("authenticate", "None", r.ret)
        /\ UNCHANGED api

ValidateSession(session_id) ==
    LET r == validate_session(minimiser, base_dir, session_id)
    IN  /\ api = "AuthManager"
        /\ minimiser' = r.self
        /\ last' = Call("validate_session", "None", r.ret)
        /\ UNCHANGED <<api, base_dir>>

Logout(session_id) ==
    /\ api = "AuthManager"
    /\ minimiser' = logout(minimiser, session_id)
    /\ last' = Call("logout", "None", None)
    /\ UNCHANGED <<api, base_dir>>

\* Time passes between two calls
Elapse ==
    /\ api = "AuthManager"
    /\ base_dir.now < MaxClock
    /\ base_dir' = [base_dir EXCEPT !.now = @ + 1]
    /\ last' = Call("elapse", "None", None)
    /\ UNCHANGED <<api, minimiser>>

GrantTrialAccess(username, trial_id) ==
    LET r == grant_trial_access(base_dir, username, trial_id)
    IN  /\ api = "AuthManager"
        /\ base_dir' = r.env
        /\ last' = Call("grant_trial_access", r.exc, None)
        /\ UNCHANGED <<api, minimiser>>

HasTrialAccess(username, trial_id) ==
    /\ api = "AuthManager"
    /\ last' = Call("has_trial_access", "None",
                    IF has_trial_access(base_dir, username, trial_id) THEN "True" ELSE "False")
    /\ UNCHANGED <<api, minimiser, base_dir>>

NextSessions ==
    \/ \E username \in Usernames, password \in Passwords : CreateUser(username, password, FALSE)
    \/ \E username \in Usernames, password \in Passwords : Authenticate(username, password)
    \/ \E session_id \in SessionInputs : ValidateSession(session_id)
    \/ \E session_id \in SessionInputs : Logout(session_id)
    \/ Elapse

SpecSessions == InitAuth /\ [][NextSessions]_vars

NextAccess ==
    \/ \E username \in Usernames, admin \in BOOLEAN : CreateUser(username, "password123", admin)
    \/ \E username \in Usernames, trial_id \in TrialIds : GrantTrialAccess(username, trial_id)
    \/ \E username \in Usernames, trial_id \in TrialIds : HasTrialAccess(username, trial_id)

SpecAccess == InitAuth /\ [][NextAccess]_vars

(***************************************************************************)
(* The claims.  Score, Allowed and the like restate the specification; the *)
(* formulas compare them with what the operators above compute.            *)
(***************************************************************************)
Strict == HasTrial /\ Current.strict_mode

Arms == {TestArms[i] : i \in DOMAIN TestArms}

ArmOf(df, id) == df[Loc(df, id)].row["arm"]

Allowed(name) == {DictGet(TestVars, name)[j] : j \in DOMAIN DictGet(TestVars, name)}

KeysMatch(c) == DictKeys(c) = DictKeys(TestVars)

ValuesAllowed(c) == \A i \in DOMAIN c : c[i][2] \in Allowed(c[i][1])

\* Every complete mapping of the trial's variables
FullCharacteristics ==
    {<< <<"gender", g>>, <<"age_group", a>> >> : g \in Allowed("gender"), a \in Allowed("age_group")}

\* score(arm) of section 4.2.1: one for each active patient of the arm and each
\* variable on which the patient has the candidate's value
Score(df, c, arm) ==
    Cardinality({pv \in (DOMAIN df) \X (DOMAIN c) :
                    /\ df[pv[1]].row["active"] = TRUE
                    /\ df[pv[1]].row["arm"] = arm
                    /\ df[pv[1]].row[c[pv[2]][1]] = c[pv[2]][2]})

Without(df, i) == [j \in 1..(Len(df) - 1) |-> IF j < i THEN df[j] ELSE df[j + 1]]

\* C1: two trials with the same configuration and seed that were given the same
\* patients in the same order hold the same sequence of arm assignments, and a
\* further patient gets the same answer (arm or error) from both.
C1_Replayability ==
    LET one == load_trial(base_dir, TrialId)
        two == load_trial(base_dir, ReplayId)
    IN  /\ Len(one.df_patients) = Len(two.df_patients)
        /\ \A i \in DOMAIN one.df_patients :
              /\ one.df_patients[i].id = two.df_patients[i].id
              /\ one.df_patients[i].row["arm"] = two.df_patients[i].row["arm"]
        /\ \A id \in IdInputs(one.df_patients), c \in CharacteristicsInputs :
              LET a == randomise_patient(one, id, c, None)
                  b == randomise_patient(two, id, c, None)
              IN  a.ret = b.ret /\ a.exc = b.exc

C1_Witness ==
    /\ Exists(base_dir, ReplayId)
    /\ last.op = "add_patient"
    /\ last.exc = "None"
    /\ Len(load_trial(base_dir, TrialId).df_patients) = 2
    /\ Len(load_trial(base_dir, ReplayId).df_patients) = 2
    /\ load_trial(base_dir, TrialId).df_patients[1].row["arm"]
           # load_trial(base_dir, TrialId).df_patients[2].row["arm"]

\* The first three patients are active, on arm "A" and male
ThreeMaleOnA(df) ==
    /\ Len(df) >= 3
    /\ \A i \in 1..3 :
          df[i].row["active"] = TRUE /\ df[i].row["arm"] = "A" /\ df[i].row["gender"] = "male"

\* C2: with minimisation_weight 1.0 and a non-empty registry, a candidate whose
\* arm scores are not all equal is enrolled on an arm of least score (over two
\* arms the only one, so that no hash decides); three active male patients on
\* "A" and nobody else send a male candidate to "B".
C2_MinimisationUnderFullWeight ==
    (minimiser.minimisation_weight = <<1, 1>> /\ get_n_patients(minimiser) > 0) =>
        \A c \in AllocationInputs :
            LET df == minimiser.df_patients
                id == PatientId(Len(df) + 1)
                r == randomise_patient(minimiser, id, c, None)
            IN  /\ (\E a, b \in Arms : Score(df, c, a) # Score(df, c, b)) =>
                       /\ r.exc = "None"
                       /\ r.ret \in Arms
                       /\ \A b \in Arms \ {r.ret} : Score(df, c, r.ret) < Score(df, c, b)
                       /\ ArmOf(r.self.df_patients, id) = r.ret
                /\ (Len(df) = 3 /\ ThreeMaleOnA(df) /\ DictGet(c, "gender") = "male") =>
                       r.ret = "B"

C2_Witness ==
    /\ minimiser.minimisation_weight = <<1, 1>>
    /\ last.op = "randomise_patient"
    /\ last.ret = "B"
    /\ get_n_patients(minimiser) = 4
    /\ ThreeMaleOnA(minimiser.df_patients)
    /\ minimiser.df_patients[4].row["gender"] = "male"
    /\ minimiser.df_patients[4].row["arm"] = "B"

\* C3 (as claimed): allocating an id that is already enrolled, with valid
\* characteristics and any manual arm, in any mode, fails with the duplicate-id
\* error and leaves the number of patients unchanged.
C3_DuplicateIdAlwaysDuplicateEntity ==
    [][\A in \in Index(Registry) \X ValidCharacteristics \X (AllArmInputs \cup {None}) :
          RandomisePatient(in[1], in[2], in[3]) =>
              /\ last'.exc = "DuplicateEntity"
              /\ Len(Registry') = Len(Registry)]_vars

\* C4: an allocation whose characteristics have a key set other than the
\* configured variables fails with SchemaMismatch, one with the right keys and a
\* value outside the allowed set fails with InvalidValue, and neither enrols a
\* patient, whatever the id and the manual arm.
C4_SchemaEnforcement ==
    api = "Minimiser" =>
        \A in \in AddInputs(Registry) :
            LET r == randomise_patient(minimiser, in[1], in[2], in[3])
            IN  /\ ~KeysMatch(in[2]) => r.exc = "SchemaMismatch" /\ r.self = minimiser
                /\ (KeysMatch(in[2]) /\ ~ValuesAllowed(in[2])) =>
                       r.exc = "InvalidValue" /\ r.self = minimiser

C4_Witness ==
    /\ last.op = "randomise_patient"
    /\ last.exc \in {"SchemaMismatch", "InvalidValue"}
    /\ Len(Registry) = 1

\* C5: a call of randomise_patient, deactivate_patient, reactivate_patient or
\* reassign_arm that raises leaves the instance, and so its registry, as it was.
C5_FailedCallLeavesRegistry ==
    [][(/\ last'.op \in {"randomise_patient", "deactivate_patient", "reactivate_patient",
                         "reassign_arm"}
        /\ last'.exc # "None") => minimiser' = minimiser]_vars

C5_Witness ==
    /\ last.op = "randomise_patient"
    /\ last.exc = "DuplicateEntity"
    /\ Len(Registry) = 2

\* C6: deactivating an active patient lowers the active count by one, keeps the
\* total, and leaves every arm total of get_minimised_arm equal to the score over
\* the registry without that patient; reactivating restores the active count and
\* the arm totals.
C6_DeactivateReactivate ==
    api = "Minimiser" =>
        \A i \in DOMAIN minimiser.df_patients :
            minimiser.df_patients[i].row["active"] = TRUE =>
                LET id == minimiser.df_patients[i].id
                    d == deactivate_patient(minimiser, id)
                    re == reactivate_patient(d.self, id)
                IN  /\ d.exc = "None" /\ re.exc = "None"
                    /\ get_active_patients(d.self) = get_active_patients(minimiser) - 1
                    /\ get_n_patients(d.self) = get_n_patients(minimiser)
                    /\ get_active_patients(re.self) = get_active_patients(minimiser)
                    /\ get_n_patients(re.self) = get_n_patients(minimiser)
                    /\ \A c \in FullCharacteristics, a \in Arms :
                          /\ ArmTotal(d.self, c, a) = Score(Without(minimiser.df_patients, i), c, a)
                          /\ ArmTotal(re.self, c, a) = Score(minimiser.df_patients, c, a)

C6_Witness ==
    /\ last.op = "deactivate_patient"
    /\ last.exc = "None"
    /\ get_n_patients(minimiser) = 2
    /\ get_active_patients(minimiser) = 1

\* C7: for an enrolled patient and an arm of the trial, reassign_arm (of the
\* Minimiser and of the DataManager) overwrites the patient's arm when
\* strict_mode is false, and fails with OperationNotPermitted, changing nothing,
\* when it is true.
C7_ReassignGating ==
    HasTrial =>
        \A id \in Index(Registry), new_arm \in Arms :
            IF api = "Minimiser"
            THEN LET r == reassign_arm(minimiser, id, new_arm)
                 IN  IF minimiser.strict_mode
                     THEN r.exc = "OperationNotPermitted" /\ r.self = minimiser
                     ELSE r.exc = "None" /\ ArmOf(r.self.df_patients, id) = new_arm
            ELSE LET r == DM_reassign_arm(base_dir, TrialId, id, new_arm, User)
                 IN  IF Current.strict_mode
                     THEN r.exc = "OperationNotPermitted" /\ r.dir = base_dir
                     ELSE /\ r.exc = "None"
                          /\ ArmOf(load_trial(r.dir, TrialId).df_patients, id) = new_arm

C7_Witness ==
    /\ last.op \in {"reassign_arm", "DataManager.reassign_arm"}
    /\ last.exc = "None"
    /\ ~Strict
    /\ Len(Registry) = 2

\* C8: in a strict trial no call changes the arm of an enrolled patient, and a
\* patient is enrolled on the arm the algorithm computes for it (the arm chosen
\* when no manual arm is given) from the registry as it was.
C8_StrictArmsFixed ==
    [][Strict =>
          /\ Len(Registry') >= Len(Registry)
          /\ \A i \in DOMAIN Registry :
                /\ Registry'[i].id = Registry[i].id
                /\ Registry'[i].row["arm"] = Registry[i].row["arm"]
          /\ Len(Registry') > Len(Registry) =>
                LET new == Registry'[Len(Registry')]
                IN  \E c \in ValidCharacteristics :
                        /\ \A k \in DOMAIN c : new.row[c[k][1]] = c[k][2]
                        /\ ChooseArm(Current, new.id, c, None).ret = new.row["arm"]]_vars

C8_Witness ==
    /\ Strict
    /\ last.op \in {"reassign_arm", "DataManager.reassign_arm"}
    /\ last.exc = "OperationNotPermitted"
    /\ Len(Registry) = 2

\* C9 (as claimed): in a strict trial an allocation given a manual arm (here an
\* arm of the trial, with a fresh id and valid characteristics), through
\* Minimiser.randomise_patient or DataManager.add_patient, fails with
\* OperationNotPermitted and enrols nobody.
C9_ManualArmInStrictRejected ==
    [][\A in \in {PatientId(Len(Registry) + 1)} \X ValidCharacteristics \X Arms :
          (Strict
           /\ (RandomisePatient(in[1], in[2], in[3]) \/ AddPatient(in[1], in[2], in[3]))) =>
              /\ last'.exc = "OperationNotPermitted"
              /\ Registry' = Registry]_vars

\* C10 (as claimed): in a non-strict trial, adding a patient with valid
\* characteristics, a fresh id and a manual arm of the trial, through
\* Minimiser.randomise_patient or DataManager.add_patient, returns that arm and
\* enrols the patient on it, active.
C10_ManualArmHonoured ==
    [][\A in \in {PatientId(Len(Registry) + 1)} \X ValidCharacteristics \X Arms :
          (HasTrial /\ ~Strict
           /\ (RandomisePatient(in[1], in[2], in[3]) \/ AddPatient(in[1], in[2], in[3]))) =>
              /\ last'.exc = "None"
              /\ last'.ret = in[3]
              /\ Len(Registry') = Len(Registry) + 1
              /\ Registry'[Len(Registry')].id = in[1]
              /\ Registry'[Len(Registry')].row["arm"] = in[3]
              /\ Registry'[Len(Registry')].row["active"] = TRUE]_vars

\* r < 1 for the value deterministic_random returns with numerator rand
BelowOne(rand) == rand[1] < UintMax[1] \/ (rand[1] = UintMax[1] /\ rand[2] < UintMax[2])

\* C11 (as claimed): whatever the hash prefix of the id, deterministic_random
\* returns r < 1 and floor(r * |arms|) is an index of arms, so an algorithmic
\* allocation of a fresh patient with valid characteristics enrols the patient
\* on one of the arms.
C11_SampleBelowOne ==
    [][\A id \in FreeIds, c \in ValidCharacteristics :
          RandomiseFree(id, c) =>
              /\ BelowOne(deterministic_random(minimiser, id))
              /\ IntOfProduct(deterministic_random(minimiser, id), Len(minimiser.arms)) < Len(minimiser.arms)
              /\ last'.exc = "None"
              /\ last'.ret \in Arms]_vars

\* The record holds, for the variable name, one of the values the trial allows
CellAllowed(self, row, name) ==
    /\ name \in DOMAIN row
    /\ \E j \in DOMAIN DictGet(self.minimisation_vars, name) :
          PyEq(row[name], DictGet(self.minimisation_vars, name)[j])

C14_CallerDictUntouched ==
    [][\A id \in IdInputs(minimiser.df_patients) :
          RandomiseHeld(id) =>
              /\ last'.characteristics = last.characteristics
              /\ (check_valid_characteristics(minimiser, last.characteristics) = "None" =>
                     check_valid_characteristics(minimiser', last'.characteristics) = "None")]_vars

\* C15 (as claimed): when two add_patient calls with different ids on one trial
\* have both returned an arm, current_state.json holds both patients, and one
\* of the two calls worked on a registry that already held the other's patient.
C15_AddPatientSerialized ==
    (/\ \A s \in Sessions : minimiser[s].pc = "returned"
     /\ minimiser[1].patient_id # minimiser[2].patient_id) =>
        /\ {minimiser[1].patient_id, minimiser[2].patient_id}
               \subseteq Index(load_trial(base_dir, TrialId).df_patients)
        /\ \E s, t \in Sessions :
              s # t /\ minimiser[s].patient_id \in Index(minimiser[t].m.df_patients)

\* C16 (as claimed): two add_patient calls on one trial with the same patient
\* id never both return an arm, and the audit trail never holds two add_patient
\* entries for one patient id.
C16_DuplicateRejectedConcurrently ==
    /\ ~(/\ \A s \in Sessions : minimiser[s].pc = "returned"
          /\ minimiser[1].patient_id = minimiser[2].patient_id)
    /\ \A i, j \in DOMAIN base_dir[TrialId].audit :
          (/\ i # j
           /\ base_dir[TrialId].audit[i].action = "add_patient"
           /\ base_dir[TrialId].audit[j].action = "add_patient") =>
              base_dir[TrialId].audit[i].data.patient_id # base_dir[TrialId].audit[j].data.patient_id

\* C17 (as claimed): when a DataManager.add_patient returns an arm, load_trial
\* gives a registry that holds the new patient on the returned arm, whatever
\* the other session is doing.
C17_PersistedBeforeReturn ==
    [][\A s \in Sessions :
          AuditAndReturn(s) =>
              LET df == load_trial(base_dir', TrialId).df_patients
              IN  /\ minimiser[s].patient_id \in Index(df)
                  /\ ArmOf(df, minimiser[s].patient_id) = last'.ret]_vars

\* C18 (as claimed): DataManager.change_patient_status on an enrolled patient
\* returns, and load_trial then shows the patient with the requested active
\* flag, the same number of patients and, after a deactivation of an active
\* patient, one active patient fewer.
C18_ChangeStatusPersisted ==
    [][\A id \in Index(Registry), active \in BOOLEAN :
          (api = "DataManager" /\ ChangePatientStatus(id, active)) =>
              /\ last'.exc = "None"
              /\ Len(Registry') = Len(Registry)
              /\ Registry'[Loc(Registry', id)].row["active"] = active
              /\ (~active /\ Registry[Loc(Registry, id)].row["active"] = TRUE) =>
                     Len(ActiveRows(Registry')) = Len(ActiveRows(Registry)) - 1]_vars

\* The name an operation is audited under
AuditAction(op) ==
    CASE op = "create_trial"             -> "create_trial"
      [] op = "add_patient"              -> "add_patient"
      [] op = "change_patient_status"    -> "change_status"
      [] op = "DataManager.reassign_arm" -> "reassign_arm"

ActionsOf(trail) == [i \in DOMAIN trail |-> trail[i].action]

\* C19 (as claimed): a DataManager operation that returns puts exactly one
\* entry with timestamp, action, data and user at the end of what
\* get_audit_trail lists, an operation that raises leaves the list as it was,
\* and change_patient_status on an enrolled patient after create_trial and
\* add_patient leaves the three entries create_trial, add_patient,
\* change_status.
C19_OneAuditEntryPerOperation ==
    [][api = "DataManager" =>
          LET before == get_audit_trail(base_dir, TrialId)
              after == get_audit_trail(base_dir', TrialId)
          IN  /\ last'.exc = "None" =>
                     /\ after = Append(before, after[Len(after)])
                     /\ DOMAIN after[Len(after)] = {"timestamp", "action", "data", "user"}
                     /\ after[Len(after)].action = AuditAction(last'.op)
                     /\ after[Len(after)].user = User
              /\ last'.exc # "None" => after = before
              /\ \A id \in Index(Registry) :
                     (/\ ActionsOf(before) = <<"create_trial", "add_patient">>
                      /\ ChangePatientStatus(id, FALSE)) =>
                         ActionsOf(after) = <<"create_trial", "add_patient", "change_status">>]_vars

\* What an audit entry does to a registry when it is replayed: add_patient
\* puts in the recorded id with the recorded characteristics, on the recorded
\* arm and active (a registry is keyed by id: an id it holds keeps its place);
\* change_status sets the flag; reassign_arm sets the arm
ReplayedRecord(data) ==
    [id  |-> data.patient_id,
     row |-> [c \in DictKeys(data.characteristics) \cup {"arm", "active"} |->
                 IF c = "arm" THEN data.arm
                 ELSE IF c = "active" THEN TRUE
                 ELSE DictGet(data.characteristics, c)]]

ReplayEntry(df, entry) ==
    CASE entry.action = "add_patient" ->
            IF entry.data.patient_id \in Index(df)
            THEN [i \in DOMAIN df |-> IF df[i].id = entry.data.patient_id
                                      THEN ReplayedRecord(entry.data) ELSE df[i]]
            ELSE Append(df, ReplayedRecord(entry.data))
      [] entry.action = "change_status" ->
            SetAt(df, entry.data.patient_id, "active", entry.data.active)
      [] entry.action = "reassign_arm" ->
            SetAt(df, entry.data.patient_id, "arm", entry.data.new_arm)
      [] OTHER -> df

RECURSIVE ReplayTrail(_)
ReplayTrail(trail) ==
    IF trail = <<>>
    THEN <<>>
    ELSE ReplayEntry(ReplayTrail(SubSeq(trail, 1, Len(trail) - 1)), trail[Len(trail)])

\* No add_patient is between its load_trial and its return
Quiescent == \A s \in Sessions : minimiser[s].pc \in {"idle", "raised", "returned"}

\* C20 (as claimed): whenever no operation is under way, replaying the entries
\* get_audit_trail lists, in that order and from an empty registry, gives the
\* registry load_trial reads.
C20_AuditReplayGivesRegistry ==
    Quiescent =>
        ReplayTrail(get_audit_trail(base_dir, TrialId)) = load_trial(base_dir, TrialId).df_patients

\* The configuration of an instance
ConfigOf(m) ==
    [trial_id |-> m.trial_id, minimisation_vars |-> m.minimisation_vars, arms |-> m.arms,
     minimisation_weight |-> m.minimisation_weight, seed |-> m.seed,
     strict_mode |-> m.strict_mode]

\* C21: load_trial after create_trial gives the configuration of the instance
\* built from the arguments of create_trial, and no add_patient,
\* change_patient_status, reassign_arm, save_trial_state or load_trial changes
\* config.json or the configuration load_trial gives.
C21_ConfigurationImmutable ==
    [][api = "DataManager" =>
          /\ \A ws \in ConfigInputs, strict_mode \in BOOLEAN :
                 (CreateTrial(ws, strict_mode) /\ last'.exc = "None") =>
                     ConfigOf(load_trial(base_dir', TrialId)) =
                         ConfigOf(Minimiser(TrialId, TestVars, TestArms, ws[1], ws[2], strict_mode))
          /\ Exists(base_dir, TrialId) =>
                 /\ Exists(base_dir', TrialId)
                 /\ base_dir'[TrialId].config_json = base_dir[TrialId].config_json
                 /\ ConfigOf(load_trial(base_dir', TrialId)) =
                        ConfigOf(load_trial(base_dir, TrialId))]_vars

\* An instance with another strict mode and other arms has been saved over the
\* state of a trial that has a patient
C21_Witness ==
    /\ api = "DataManager"
    /\ Exists(base_dir, TrialId)
    /\ Len(Registry) >= 1
    /\ last.op = "save_trial_state"
    /\ last.exc = "None"
    /\ base_dir[TrialId].current_state_json.strict_mode # base_dir[TrialId].config_json.strict_mode

\* C22: Minimiser.from_dict(m.to_dict()) has the configuration and the patients
\* of m, and every further patient is given the same arm, or refused with the
\* same error, by both.
C22_ToFromDictRoundTrip ==
    api = "Minimiser" =>
        LET m2 == from_dict(to_dict(minimiser))
        IN  /\ ConfigOf(m2) = ConfigOf(minimiser)
            /\ m2.df_patients = minimiser.df_patients
            /\ \A in \in AddInputs(minimiser.df_patients) :
                   \A rebuilt \in {randomise_patient(m2, in[1], in[2], in[3])},
                      original \in {randomise_patient(minimiser, in[1], in[2], in[3])} :
                       /\ rebuilt.ret = original.ret
                       /\ rebuilt.exc = original.exc

\* A registry of two patients, one of them inactive
C22_Witness ==
    /\ api = "Minimiser"
    /\ Len(minimiser.df_patients) = 2
    /\ Len(ActiveRows(minimiser.df_patients)) = 1

\* The number of active patients on an arm with a value of a variable
CountActive(df, arm, name, value) ==
    Cardinality({i \in DOMAIN df : /\ df[i].row["active"] = TRUE
                                   /\ df[i].row["arm"] = arm
                                   /\ df[i].row[name] = value})

\* C23 (as claimed): for a registry with patients and each variable, the table
\* of characteristics_by_arm has a row for each configured arm and under the
\* variable a count for each allowed value, the number of active patients on
\* that arm with that value.
C23_BalanceTableCounts ==
    (api = "Minimiser" /\ minimiser.df_patients # <<>>) =>
        LET table == characteristics_by_arm(minimiser)
        IN  \A name \in DictKeys(minimiser.minimisation_vars) :
                /\ DOMAIN table = Arms
                /\ \A arm \in Arms :
                       /\ DOMAIN table[arm][name] = Allowed(name)
                       /\ \A value \in Allowed(name) :
                              table[arm][name][value] =
                                  CountActive(minimiser.df_patients, arm, name, value)

Max(S) == CHOOSE x \in S : \A y \in S : y <= x

Min(S) == CHOOSE x \in S : \A y \in S : x <= y

\* round(difference / total * 100) if total > 0 else 0, halves to the even
\* integer
Pct(difference, total) ==
    IF total = 0 THEN 0
    ELSE LET q == (difference * 100) \div total
             r == (difference * 100) % total
         IN  IF 2 * r < total \/ (2 * r = total /\ q % 2 = 0) THEN q ELSE q + 1

\* f"{difference} ({pct}%)"
Cell(difference, pct) == ToString(difference) \o " (" \o ToString(pct) \o "%)"

Sum(f, S) == LET RECURSIVE Go(_) Go(T) == IF T = {} THEN 0
                                       ELSE LET x == CHOOSE x \in T : TRUE
                                            IN  f[x] + Go(T \ {x})
             IN  Go(S)

\* The Skew cell of an arm and the Imbalance cell of a value, from the counts
\* of the active patients
SkewOf(df, name, arm) ==
    LET counts == [value \in Allowed(name) |-> CountActive(df, arm, name, value)]
        range == {counts[value] : value \in Allowed(name)}
    IN  Cell(Max(range) - Min(range), Pct(Max(range) - Min(range), Sum(counts, Allowed(name))))

ImbalanceOf(df, name, value) ==
    LET counts == [arm \in Arms |-> CountActive(df, arm, name, value)]
        range == {counts[arm] : arm \in Arms}
    IN  Cell(Max(range) - Min(range), Pct(Max(range) - Min(range), Sum(counts, Arms)))

\* C24 (as claimed): display_minimisation_table on a registry with patients
\* shows, for each variable, in each arm's row the Skew max - min of the row's
\* counts and in each value's column the Imbalance max - min over the arms,
\* each with its rounded percentage of the sum; for the registry of the
\* example every Skew and Imbalance cell of gender is '1 (33%)'.
C24_SkewAndImbalance ==
    [][(DisplayMinimisationTable /\ minimiser.df_patients # <<>>) =>
          /\ last'.exc = "None"
          /\ \A name \in DictKeys(minimiser.minimisation_vars) :
                 /\ \A arm \in Arms :
                        display_minimisation_table(minimiser).tables[name][arm]["Skew"] =
                            SkewOf(minimiser.df_patients, name, arm)
                 /\ \A value \in Allowed(name) :
                        display_minimisation_table(minimiser).tables[name]["Imbalance"][value] =
                            ImbalanceOf(minimiser.df_patients, name, value)
          /\ minimiser.df_patients = ExampleRegistry =>
                 /\ \A arm \in Arms : SkewOf(minimiser.df_patients, "gender", arm) = "1 (33%)"
                 /\ \A value \in Allowed("gender") :
                        ImbalanceOf(minimiser.df_patients, "gender", value) = "1 (33%)"]_vars

\* C25 (as claimed): display_minimisation_table raises for no registry: it
\* shows the tables, or says that there is not enough data.
C25_ReportNeverFails ==
    [][DisplayMinimisationTable =>
          /\ last'.exc = "None"
          /\ \/ last'.ret # None
             \/ display_minimisation_table(minimiser).tables # None]_vars

Users == base_dir.auth_file.users

Sessions_ == minimiser.sessions

\* The password whose digest create_user stored for a user
PasswordOf(username) ==
    CHOOSE password \in DOMAIN Sha256Hex :
        Sha256Hex[password] = DictGet(Users, username).password_hash

\* C26: authenticate returns a session id, and records under it one session
\* of that user beside the sessions there were, when the user exists and the
\* password is the one create_user was given; otherwise it returns False and
\* the sessions are as they were.
C26_AuthenticateSafety ==
    [][(api = "AuthManager" /\ last'.op = "authenticate") =>
       \A username \in Usernames, password \in Passwords :
          Authenticate(username, password) =>
              IF username \in DictKeys(Users) /\ password = PasswordOf(username)
              THEN /\ last'.ret # "False"
                   /\ last'.ret \notin DictKeys(Sessions_)
                   /\ minimiser'.sessions =
                         Append(Sessions_, <<last'.ret, DictGet(minimiser'.sessions, last'.ret)>>)
                   /\ DictGet(minimiser'.sessions, last'.ret).username = username
              ELSE /\ last'.ret = "False"
                   /\ minimiser' = minimiser]_vars

\* Two users are logged in, after a wrong password was refused
C26_Witness ==
    /\ api = "AuthManager"
    /\ last.op = "authenticate"
    /\ last.ret # "False"
    /\ {Sessions_[i][2].username : i \in DOMAIN Sessions_} = Usernames

\* What validate_session would return for a session id
Validates(self, env, session_id) == validate_session(self, env, session_id).ret

\* The ids to tell apart in a state: those held, and one that is not (every
\* id that is not held is handled as "invalid_session_id" is)
HeldOrNot == DictKeys(Sessions_) \cup {"invalid_session_id"}

\* C27: a session id validates to its user from the login that issued it
\* until it is logged out or 24 hours have passed, and to None otherwise: a
\* login's id validates at once and expires 24 hours later; validate_session
\* returns the user of a session that is held and not expired, None for any
\* other id, and removes an expired session; logout ends that session; both
\* leave every other session and the clock as they were, so what every other
\* id validates to; an id that is not held once its time of issue has come
\* is never held again.
C27_SessionLifecycle ==
    [][/\ (api = "AuthManager" /\ last'.op = "authenticate" /\ last'.ret # "False") =>
             \A username \in Usernames, password \in Passwords :
                 Authenticate(username, password) =>
                     /\ Validates(minimiser', base_dir', last'.ret) = username
                     /\ DictGet(minimiser'.sessions, last'.ret).expires =
                           base_dir'.now + SessionLife
       /\ (api = "AuthManager" /\ last'.op = "validate_session") =>
             \A session_id \in HeldOrNot :
                 ValidateSession(session_id) =>
                     /\ last'.ret =
                           IF /\ session_id \in DictKeys(Sessions_)
                              /\ base_dir.now <= DictGet(Sessions_, session_id).expires
                           THEN DictGet(Sessions_, session_id).username
                           ELSE None
                     /\ last'.ret = None => session_id \notin DictKeys(minimiser'.sessions)
                     /\ DictDel(minimiser'.sessions, session_id) = DictDel(Sessions_, session_id)
                     /\ base_dir' = base_dir
       /\ (api = "AuthManager" /\ last'.op = "logout") =>
             \A session_id \in HeldOrNot :
                 Logout(session_id) =>
                     /\ Validates(minimiser', base_dir', session_id) = None
                     /\ DictDel(minimiser'.sessions, session_id) = DictDel(Sessions_, session_id)
                     /\ base_dir' = base_dir
       /\ (api = "AuthManager" /\ minimiser' # minimiser) =>
             \A session_id \in DictKeys(minimiser'.sessions) \ DictKeys(Sessions_) :
                 \A username \in Usernames, now \in 1..base_dir.now :
                     session_id # SessionId(username, now)]_vars

\* The first login has expired and validate_session has returned None, while
\* a later login is still valid
C27_Witness ==
    /\ api = "AuthManager"
    /\ last.op = "validate_session"
    /\ last.ret = None
    /\ base_dir.now > 1 + SessionLife
    /\ \A username \in Usernames : SessionId(username, 1) \notin DictKeys(Sessions_)
    /\ \E i \in DOMAIN Sessions_ : base_dir.now <= Sessions_[i][2].expires

\* has_trial_access(u, t) as the auth file of the state answers it
Access(env) ==
    [username \in Usernames, trial_id \in TrialIds |-> has_trial_access(env, username, trial_id)]

\* C28: has_trial_access(u, t) is true exactly when u exists and either u is
\* an admin or grant_trial_access(u, t) has been called (a call that
\* returned: a call for a user that does not exist raises).  Step by step:
\* nobody has access before the first call; a create_user that succeeds gives
\* the new user access to every trial if it is an admin and to none if not,
\* and changes no other answer; a grant_trial_access(u, t) that returns makes
\* the answer for (u, t) true and changes no other answer; a call that
\* raises changes no answer; a user that does not exist has no access; and
\* has_trial_access returns the answer.
C28_TrialAccess ==
    /\ \A username \in Usernames, trial_id \in TrialIds :
           ~has_trial_access(base_dir, username, trial_id)
    /\ [][/\ (api = "AuthManager" /\ last'.op = "create_user") =>
                 \A username \in Usernames, admin \in BOOLEAN :
                     CreateUser(username, "password123", admin) =>
                         IF last'.exc = "None"
                         THEN /\ username \notin DictKeys(Users)
                              /\ Access(base_dir') =
                                    [u \in Usernames, t \in TrialIds |->
                                        IF u = username THEN admin
                                        ELSE Access(base_dir)[u, t]]
                         ELSE Access(base_dir') = Access(base_dir)
          /\ (api = "AuthManager" /\ last'.op = "grant_trial_access") =>
                 \A username \in Usernames, trial_id \in TrialIds :
                     GrantTrialAccess(username, trial_id) =>
                         IF last'.exc = "None"
                         THEN /\ username \in DictKeys(Users)
                              /\ Access(base_dir') =
                                    [u \in Usernames, t \in TrialIds |->
                                        IF u = username /\ t = trial_id THEN TRUE
                                        ELSE Access(base_dir)[u, t]]
                         ELSE /\ username \notin DictKeys(Users)
                              /\ Access(base_dir') = Access(base_dir)
          /\ (api = "AuthManager" /\ last'.op = "has_trial_access") =>
                 \A username \in Usernames, trial_id \in TrialIds :
                     HasTrialAccess(username, trial_id) =>
                         /\ last'.ret = IF Access(base_dir)[username, trial_id]
                                        THEN "True" ELSE "False"
                         /\ username \notin DictKeys(Users) => last'.ret = "False"
                         /\ Access(base_dir') = Access(base_dir)]_vars

\* test_has_trial_access: testuser was granted trial1 only, adminuser is an
\* admin that was granted nothing, and has_trial_access has answered
C28_Witness ==
    /\ api = "AuthManager"
    /\ last.op = "has_trial_access"
    /\ last.ret = "True"
    /\ DictKeys(Users) = {"testuser", "adminuser"}
    /\ ~DictGet(Users, "testuser").admin
    /\ DictGet(Users, "testuser").trial_access = <<"trial1">>
    /\ DictGet(Users, "adminuser").admin
    /\ DictGet(Users, "adminuser").trial_access = <<>>
    /\ Access(base_dir) = [u \in Usernames, t \in TrialIds |->
                              u = "adminuser" \/ t = "trial1"]

\* C29: create_user with a username that already exists fails with an error
\* and leaves the auth file as it was, so the record of the user (password
\* hash, admin flag, trial access list) is unchanged; the original password
\* still authenticates and the new one does not.
C29_DuplicateUserRejected ==
    [][(api = "AuthManager" /\ last'.op = "create_user") =>
          \A username \in DictKeys(Users), password \in Passwords :
              CreateUser(username, password, FALSE) =>
                  /\ last'.exc = "UserExists"
                  /\ base_dir'.auth_file = base_dir.auth_file
                  /\ DictGet(base_dir'.auth_file.users, username) = DictGet(Users, username)
                  /\ \A p \in Passwords :
                        (authenticate(minimiser', base_dir', username, p).ret # "False")
                            <=> (p = PasswordOf(username))]_vars

\* test_duplicate_user_error: testuser was created with password123 and a
\* second create_user for testuser has raised
C29_Witness ==
    /\ api = "AuthManager"
    /\ last.op = "create_user"
    /\ last.exc = "UserExists"
    /\ "testuser" \in DictKeys(Users)
    /\ PasswordOf("testuser") = "password123"
    /\ authenticate(minimiser, base_dir, "testuser", "password123").ret # "False"
    /\ authenticate(minimiser, base_dir, "testuser", "newpassword").ret = "False"

\* arms[floor(sample(patientId, seed) * |arms|)]
FirstPatientArm(self, id) == ArmAt(self, deterministic_random(self, id)).ret

\* The arm of the non-first path: the minimisation draw, then the minimised
\* arm or the arm of the patient's own sample
NonFirstArm(self, id, characteristics) ==
    IF RandLeqWeight(deterministic_random(self, id \o "_allocation"), self.minimisation_weight)
    THEN get_minimised_arm(self, characteristics).ret
    ELSE FirstPatientArm(self, id)

\* C30: the first-patient rule, arm = arms[floor(sample(patientId, seed) *
\* |arms|)] whatever the weight and the characteristics, is applied exactly
\* when the registry holds no record at all; when the registry holds
\* records, even if every one is inactive, the allocation takes the
\* non-first path.
C30_FirstPatientRule ==
    [][\A n \in {Len(minimiser'.df_patients)} :
          \* the dicts, in either order of keys, that give the row added
          \A characteristics \in
                {c \in AllocationInputs :
                    \A k \in DictKeys(c) : DictGet(c, k) = minimiser'.df_patients[n].row[k]} :
              /\ last'.exc = "None"
              /\ n = get_n_patients(minimiser) + 1
              /\ Allocate(characteristics) =>
                    last'.ret = IF minimiser.df_patients = <<>>
                                THEN FirstPatientArm(minimiser, PatientId(n))
                                ELSE NonFirstArm(minimiser, PatientId(n), characteristics)]_vars

\* Every patient enrolled before is inactive and the allocation made was not
\* the one of the first-patient rule
C30_Witness ==
    /\ api = "Minimiser"
    /\ last.op = "randomise_patient"
    /\ last.exc = "None"
    /\ Len(minimiser.df_patients) >= 2
    /\ \A i \in 1..(Len(minimiser.df_patients) - 1) : ~minimiser.df_patients[i].row["active"]
    /\ minimiser.df_patients[Len(minimiser.df_patients)].row["arm"] = last.ret
    /\ last.ret # FirstPatientArm(minimiser, PatientId(Len(minimiser.df_patients)))

\* C37: reassign_arm checks strict mode, then that the patient exists, then
\* that the arm is one of the trial's: in strict mode it fails with
\* OperationNotPermitted even when the id is absent or the arm invalid, and in
\* non-strict mode an absent id fails with NotFound even when the arm is
\* invalid too; a failing call leaves the instance as it was.
C37_ReassignCheckOrder ==
    [][(api = "Minimiser" /\ last'.op = "reassign_arm") =>
          \A id \in IdInputs(Registry), new_arm \in AllArmInputs :
              ReassignArm(id, new_arm) =>
                  /\ last'.exc =
                        IF minimiser.strict_mode THEN "OperationNotPermitted"
                        ELSE IF id \notin Index(Registry) THEN "NotFound"
                        ELSE IF new_arm \notin Arms THEN "InvalidArm"
                        ELSE "None"
                  /\ last'.exc # "None" => minimiser' = minimiser]_vars

\* A non-strict trial without patients: every id is absent, and the arms
\* offered include one that is not an arm of the trial; the call has failed
\* with NotFound
C37_Witness ==
    /\ api = "Minimiser"
    /\ ~minimiser.strict_mode
    /\ minimiser.df_patients = <<>>
    /\ last.op = "reassign_arm"
    /\ last.exc = "NotFound"
    /\ "Z" \in AllArmInputs \ Arms

\* The registry with the active flag of one record set, and nothing else
WithActive(df, id, active) ==
    [i \in DOMAIN df |->
        IF df[i].id = id
        THEN [id |-> id,
              row |-> [c \in DOMAIN df[i].row |-> IF c = "active" THEN active ELSE df[i].row[c]]]
        ELSE df[i]]

\* C38: deactivate_patient and reactivate_patient of an enrolled patient
\* change that record's active flag and nothing else (its arm, its
\* characteristics and every other record stay), each leaves the registry
\* as it was when the flag already had that value, and both fail with
\* NotFound, changing nothing, for an id that is not enrolled.
C38_StatusFrame ==
    [][/\ (api = "Minimiser" /\ last'.op = "deactivate_patient") =>
             \A id \in IdInputs(Registry) :
                 DeactivatePatient(id) =>
                     IF id \in Index(Registry)
                     THEN /\ last'.exc = "None"
                          /\ minimiser' = [minimiser EXCEPT !.df_patients =
                                              WithActive(Registry, id, FALSE)]
                          /\ ~Registry[Loc(Registry, id)].row["active"] => minimiser' = minimiser
                     ELSE last'.exc = "NotFound" /\ minimiser' = minimiser
       /\ (api = "Minimiser" /\ last'.op = "reactivate_patient") =>
             \A id \in IdInputs(Registry) :
                 ReactivatePatient(id) =>
                     IF id \in Index(Registry)
                     THEN /\ last'.exc = "None"
                          /\ minimiser' = [minimiser EXCEPT !.df_patients =
                                              WithActive(Registry, id, TRUE)]
                          /\ Registry[Loc(Registry, id)].row["active"] => minimiser' = minimiser
                     ELSE last'.exc = "NotFound" /\ minimiser' = minimiser]_vars

\* One of two patients has been deactivated: the other is active still
C38_Witness ==
    /\ api = "Minimiser"
    /\ last.op = "deactivate_patient"
    /\ last.exc = "None"
    /\ Len(minimiser.df_patients) = 2
    /\ \E i, j \in DOMAIN minimiser.df_patients :
          /\ ~minimiser.df_patients[i].row["active"]
          /\ minimiser.df_patients[j].row["active"]

\* C39: patient records are created once and never destroyed, and ids stay
\* unique: no two records of the registry share an id, and over every call
\* (an allocation, a deactivation, a reactivation, a reassignment, made on
\* the instance or through the DataManager) the set of ids only grows and
\* the number of records never decreases.
C39_RecordsNeverDestroyed ==
    /\ [](\A i, j \in DOMAIN Registry : Registry[i].id = Registry[j].id => i = j)
    /\ [][/\ Index(Registry) \subseteq Index(Registry')
          /\ Len(Registry) <= Len(Registry')]_vars

\* Two patients are enrolled and an allocation for an id already enrolled
\* has been rejected
C39_Witness ==
    /\ Len(Registry) = 2
    /\ Cardinality(Index(Registry)) = 2
    /\ last.op \in {"randomise_patient", "add_patient"}
    /\ last.exc = "DuplicateEntity"

SamePairs(c1, c2) ==
    /\ DictKeys(c1) = DictKeys(c2)
    /\ \A name \in DictKeys(c1) : DictGet(c1, name) = DictGet(c2, name)

\* C36 (as claimed): two characteristics mappings with the same
\* variable-to-value pairs listed in a different order of keys receive the
\* same arm from the same registry, configuration and seed, also when the
\* tie-break hash decides.
C36_KeyOrderIndependent ==
    (api = "Minimiser" /\ get_n_patients(minimiser) <= MaxPrior) =>
        \A c1, c2 \in AllocationInputs :
            SamePairs(c1, c2) =>
                LET id == PatientId(get_n_patients(minimiser) + 1)
                IN  randomise_patient(minimiser, id, c1, None).ret =
                        randomise_patient(minimiser, id, c2, None).ret

\* The score of each arm, in the configured order of arms, and the least of them
Scores(self, c) == [i \in DOMAIN self.arms |-> Score(self.df_patients, c, self.arms[i])]

LeastOf(scores) == scores[CHOOSE i \in DOMAIN scores : \A j \in DOMAIN scores : scores[i] <= scores[j]]

FirstAt(scores, s) == CHOOSE i \in DOMAIN scores : scores[i] = s /\ \A j \in 1..(i - 1) : scores[j] # s

TieHashArm(self, c) ==
    self.arms[IntOfProduct(deterministic_random(self,
                  "minimisation_tie_" \o ListRepr(DictValues(c))), Len(self.arms)) + 1]

TiedBelowAnother(scores) ==
    /\ \E i, j \in DOMAIN scores : i # j /\ scores[i] = LeastOf(scores) /\ scores[j] = LeastOf(scores)
    /\ \E k \in DOMAIN scores : scores[k] > LeastOf(scores)

\* C33: in a trial of three arms, when two or more arms share the least score
\* for the candidate and another arm scores strictly more, get_minimised_arm
\* returns the first arm, in the configured order, with the least score,
\* whatever the tie-break hash of the candidate would name; under full weight
\* that arm is the one the non-first patient is allocated to.
C33_FirstMinimumArm ==
    (api = "Minimiser" /\ Len(minimiser.arms) >= 3 /\ get_n_patients(minimiser) <= MaxRows) =>
        \A c \in ThreeArmInputs :
            \A scores \in {Scores(minimiser, c)} :
                TiedBelowAnother(scores) =>
                    /\ get_minimised_arm(minimiser, c) =
                           [ret |-> minimiser.arms[FirstAt(scores, LeastOf(scores))], exc |-> "None"]
                    /\ minimiser.minimisation_weight = <<1, 1>> =>
                           randomise_patient(minimiser, PatientId(get_n_patients(minimiser) + 1),
                                             c, None).ret
                               = minimiser.arms[FirstAt(scores, LeastOf(scores))]

\* The newest patient was allocated under full weight to B, the first of the
\* two arms tied below A, while the tie-break hash of the patient's
\* characteristics names C
C33_Witness ==
    /\ api = "Minimiser"
    /\ minimiser.arms = ThreeArms
    /\ minimiser.minimisation_weight = <<1, 1>>
    /\ last.op = "randomise_patient"
    /\ last.exc = "None"
    /\ last.ret = "B"
    /\ Len(minimiser.df_patients) >= 2
    /\ \E n \in {Len(minimiser.df_patients)} :
          \E c \in {<< <<"gender", minimiser.df_patients[n].row["gender"]>>,
                      <<"age_group", minimiser.df_patients[n].row["age_group"]>> >>} :
              \E before \in {[minimiser EXCEPT !.df_patients = SubSeq(@, 1, n - 1)]} :
                  /\ minimiser.df_patients[n].row["arm"] = "B"
                  /\ TiedBelowAnother(Scores(before, c))
                  /\ Scores(before, c)[2] = Scores(before, c)[3]
                  /\ Scores(before, c)[1] > Scores(before, c)[2]
                  /\ TieHashArm(before, c) = "C"

\* The number of the candidate's variables on which a record has the candidate's value
Matches(row, c) == Cardinality({i \in DOMAIN c : row[c[i][1]] = c[i][2]})

\* What one record adds to the score of an arm
Adds(record, c, arm) ==
    IF record.row["active"] = TRUE /\ record.row["arm"] = arm THEN Matches(record.row, c) ELSE 0

RECURSIVE SumOfAdds(_, _, _)
SumOfAdds(df, c, arm) ==
    IF df = <<>> THEN 0 ELSE Adds(Head(df), c, arm) + SumOfAdds(Tail(df), c, arm)

OnlyActive(df) == SelectSeq(df, LAMBDA record : record.row["active"] = TRUE)

\* C34: the total get_minimised_arm gives an arm for a candidate is the sum,
\* over the configured variables, of the number of active patients on that
\* arm with the candidate's value: each active patient adds the number of
\* variables it matches on to its own arm and nothing to the others, and the
\* inactive patients add nothing (the total is that of the registry without
\* them).
C34_ScorePerMatchingVariable ==
    api = "Minimiser" =>
        \A c \in ThreeArmInputs, i \in DOMAIN minimiser.arms :
            \A arm \in {minimiser.arms[i]}, total \in {ArmTotal(minimiser, c, minimiser.arms[i])} :
                /\ total = Score(minimiser.df_patients, c, arm)
                /\ total = SumOfAdds(minimiser.df_patients, c, arm)
                /\ total = ArmTotal([minimiser EXCEPT !.df_patients = OnlyActive(@)], c, arm)

\* The newest patient, a man of 50 or less, went under full weight to B: one
\* active patient on A matching on both variables gave A a total of 2, and
\* the only patient on B, matching too, is inactive and gave B none
C34_Witness ==
    /\ api = "Minimiser"
    /\ minimiser.arms = ThreeArms
    /\ minimiser.minimisation_weight = <<1, 1>>
    /\ last.op = "randomise_patient"
    /\ last.exc = "None"
    /\ last.ret = "B"
    /\ Len(minimiser.df_patients) = 3
    /\ \E c \in {<< <<"gender", "male">>, <<"age_group", "<=50">> >>} :
          \E before \in {[minimiser EXCEPT !.df_patients = SubSeq(@, 1, 2)]} :
              /\ \A k \in DictKeys(c) : minimiser.df_patients[3].row[k] = DictGet(c, k)
              /\ before.df_patients[1].row["arm"] = "A"
              /\ before.df_patients[1].row["active"]
              /\ Matches(before.df_patients[1].row, c) = 2
              /\ before.df_patients[2].row["arm"] = "B"
              /\ ~before.df_patients[2].row["active"]
              /\ Matches(before.df_patients[2].row, c) = 2
              /\ ArmTotal(before, c, "A") = 2
              /\ ArmTotal(before, c, "B") = 0

\* r <= w[1] / w[2] for the draw r = (65536 * rand[1] + rand[2]) / 0xffffffff,
\* by long division of 0xffffffff * w[1] by w[2]
WithinWeight(rand, w) ==
    LET high == (65535 * w[1]) \div w[2]
        low  == (((65535 * w[1]) % w[2]) * 65536 + 65535 * w[1]) \div w[2]
    IN  IF w[1] >= w[2] THEN TRUE
        ELSE IF rand[1] < high THEN TRUE
        ELSE IF rand[1] > high + 1 THEN FALSE
        ELSE (rand[1] - high) * 65536 + rand[2] <= low

\* The result of the minimisation over the active patients: the hash of the
\* candidate's values when every arm has the same score, else the first arm
\* with the least score
MinimisedArm(self, c) ==
    LET scores == Scores(self, c)
    IN  IF \A i, j \in DOMAIN scores : scores[i] = scores[j]
        THEN TieHashArm(self, c)
        ELSE self.arms[FirstAt(scores, LeastOf(scores))]

UniformArm(self, id) == self.arms[IntOfProduct(deterministic_random(self, id), Len(self.arms)) + 1]

\* C31: a patient who is not the first and is given no arm is allocated by
\* the minimisation over the active patients if and only if the draw
\* r = deterministic_random(id + "_allocation") is at most minimisation_weight,
\* and else to arms[int(deterministic_random(id) * len(arms))]; with weight
\* 1.0 every such allocation is the minimisation's.
C31_WeightDecidesPath ==
    (api = "Minimiser" /\ get_n_patients(minimiser) > 0 /\ get_n_patients(minimiser) <= MaxRows) =>
        \A c \in ThreeArmInputs :
            \A id \in {PatientId(get_n_patients(minimiser) + 1)} :
                \A r \in {randomise_patient(minimiser, id, c, None)} :
                    /\ r.exc = "None"
                    /\ r.ret = IF WithinWeight(deterministic_random(minimiser, id \o "_allocation"),
                                               minimiser.minimisation_weight)
                               THEN MinimisedArm(minimiser, c)
                               ELSE UniformArm(minimiser, id)
                    /\ minimiser.minimisation_weight = <<1, 1>> => r.ret = MinimisedArm(minimiser, c)

\* Under weight 0.8 the third patient's draw was above the weight and the
\* patient went to the arm of the uniform draw, which the minimisation would
\* not have chosen
C31_Witness ==
    /\ api = "Minimiser"
    /\ minimiser.minimisation_weight = <<8, 10>>
    /\ last.op = "randomise_patient"
    /\ last.exc = "None"
    /\ Len(minimiser.df_patients) = 3
    /\ \E c \in {<< <<"gender", minimiser.df_patients[3].row["gender"]>>,
                  <<"age_group", minimiser.df_patients[3].row["age_group"]>> >>} :
          \E before \in {[minimiser EXCEPT !.df_patients = SubSeq(@, 1, 2)]} :
              /\ ~WithinWeight(deterministic_random(before, "patient3_allocation"), <<8, 10>>)
              /\ last.ret = UniformArm(before, "patient3")
              /\ minimiser.df_patients[3].row["arm"] = last.ret
              /\ last.ret # MinimisedArm(before, c)
              /\ \E i, j \in DOMAIN before.arms : Scores(before, c)[i] # Scores(before, c)[j]

\* arms[int(sample("minimisation_tie_" + str(values), seed) * len(arms))]
TieArmOf(values, seed, arms) ==
    arms[IntOfProduct(Sha256Prefix8["minimisation_tie_" \o ListRepr(values) \o "_" \o seed],
                      Len(arms)) + 1]

\* C32: when every arm has the same score for the candidate, zero or not,
\* get_minimised_arm returns the arm at the index the hash of
\* "minimisation_tie_" + the list of the candidate's values gives: an arm
\* fixed by those values, the seed and the arms, whatever the registry holds
\* and whichever patient is allocated (under full weight it is the arm a
\* non-first patient receives).
C32_TieBrokenByHash ==
    (api = "Minimiser" /\ get_n_patients(minimiser) <= MaxRows) =>
        \A c \in ThreeArmInputs :
            (\A i, j \in DOMAIN minimiser.arms :
                 Scores(minimiser, c)[i] = Scores(minimiser, c)[j]) =>
                \A arm \in {TieArmOf(DictValues(c), minimiser.seed, minimiser.arms)} :
                    /\ get_minimised_arm(minimiser, c) = [ret |-> arm, exc |-> "None"]
                    /\ (minimiser.minimisation_weight = <<1, 1>> /\ get_n_patients(minimiser) > 0) =>
                           randomise_patient(minimiser, PatientId(get_n_patients(minimiser) + 1),
                                             c, None).ret = arm

\* One active man of 50 or less on each arm gave every arm a score of 2 for
\* the fourth patient, a man of 50 or less, who went under full weight to C,
\* the arm of the hash, and not to A, the first arm
C32_Witness ==
    /\ api = "Minimiser"
    /\ minimiser.arms = ThreeArms
    /\ minimiser.minimisation_weight = <<1, 1>>
    /\ last.op = "randomise_patient"
    /\ last.exc = "None"
    /\ last.ret = "C"
    /\ Len(minimiser.df_patients) = 4
    /\ \E c \in {<< <<"gender", "male">>, <<"age_group", "<=50">> >>} :
          \E before \in {[minimiser EXCEPT !.df_patients = SubSeq(@, 1, 3)]} :
              /\ \A k \in DictKeys(c) : minimiser.df_patients[4].row[k] = DictGet(c, k)
              /\ minimiser.df_patients[4].row["arm"] = "C"
              /\ Scores(before, c) = <<2, 2, 2>>
              /\ TieArmOf(DictValues(c), before.seed, before.arms) = "C"

\* The same records in another order of insertion
Reordered(df, p) == [i \in DOMAIN df |-> df[p[i]]]

\* C35: the arm a patient is allocated to depends on a non-empty registry
\* through the records it holds and not through the order they were
\* inserted in: with the same configuration and seed, the same patient id and
\* the same characteristics receive the same arm in every registry holding
\* the same records (ids, characteristics, arms, active flags).
C35_InsertionOrderIndependent ==
    (api = "Minimiser" /\ get_n_patients(minimiser) > 0 /\ get_n_patients(minimiser) <= MaxRows) =>
        \A c \in ThreeArmInputs :
            \A id \in {PatientId(get_n_patients(minimiser) + 1)} :
                \A r \in {randomise_patient(minimiser, id, c, None)} :
                    \A p \in Permutations(DOMAIN minimiser.df_patients) :
                        \A other \in {randomise_patient(
                                         [minimiser EXCEPT !.df_patients = Reordered(@, p)],
                                         id, c, None)} :
                            /\ other.exc = r.exc
                            /\ other.ret = r.ret

\* The third patient was allocated by minimisation, the scores differing,
\* into a registry of two records that differ, and would have received the
\* same arm had the two been inserted the other way round
C35_Witness ==
    /\ api = "Minimiser"
    /\ minimiser.minimisation_weight = <<1, 1>>
    /\ last.op = "randomise_patient"
    /\ last.exc = "None"
    /\ Len(minimiser.df_patients) = 3
    /\ \E c \in {<< <<"gender", minimiser.df_patients[3].row["gender"]>>,
                  <<"age_group", minimiser.df_patients[3].row["age_group"]>> >>} :
          \E before \in {[minimiser EXCEPT !.df_patients = SubSeq(@, 1, 2)]} :
              /\ before.df_patients[1].row # before.df_patients[2].row
              /\ before.df_patients[1].row["active"]
              /\ ~before.df_patients[2].row["active"]
              /\ \E i, j \in DOMAIN before.arms : Scores(before, c)[i] # Scores(before, c)[j]
              /\ minimiser.df_patients[3].row["arm"] = last.ret
              /\ randomise_patient(
                     [before EXCEPT !.df_patients = <<before.df_patients[2], before.df_patients[1]>>],
                     "patient3", c, None).ret = last.ret

====
